---- MODULE Spec2Model ----
(***************************************************************************)
(* The conversation controller of biomni/agent/a1.py (A1.configure: the    *)
(* generate / execute / self_critic nodes and their routing, A1.go and     *)
(* A1.go_stream) and the thread-to-async bridge of the streaming server    *)
(* (server/biomni_a1_advanced_server_v4.py, stream_a1_events_v4).          *)
(*                                                                         *)
(* Text is a sequence of tokens <<kind, n>>.  A tag, or a fixed phrase the *)
(* code searches for, is one token whose kind is its literal text; "txt"   *)
(* is a run of n other characters and "ws" a run of n whitespace           *)
(* characters; a token that prints a number carries that number as n.      *)
(***************************************************************************)
EXTENDS Integers, Sequences, FiniteSets, TLC

VARIABLES
    messages,               \* state["messages"]: sequence of [role, content]
    next_step,              \* state["next_step"]
    node,                   \* the graph node to run next, or how the run ended
    steps,                  \* graph super-steps taken in this run
    critic_count,           \* self.critic_count
    user_task,              \* self.user_task
    log,                    \* self.log
    other_session,          \* a second go_stream on the same A1 instance
    self_critic,            \* configure(self_critic=...)
    test_time_scale_round,  \* configure(test_time_scale_round=...)
    llm,                    \* the model under test: see ModelCall
    executor,               \* the results the Action Executor can return
    last,                   \* observer: what the last node did
    tagless_run,            \* observer: consecutive replies without any tag
    executor_calls,         \* observer: calls of the Action Executor
    output_queue,           \* stream_a1_events_v4: output_queue
    streaming_done,         \* stream_a1_events_v4: streaming_done
    thread,                 \* stream_a1_events_v4: position of stream_agent
    consumer,               \* stream_a1_events_v4: position of the consumer loop
    events,                 \* events yielded to the caller
    current_chunk,          \* the text last handed to a classifier
    a1_events,              \* what A1._classify_message_multi returned for it
    orch_events,            \* what parse_chunk_with_llm returned for it
    clock,                  \* time.time(), in milliseconds
    orchestrator_pending,   \* EventOrchestrator.pending_tool_calls
    pending_tool_calls,     \* SmartEventProcessor.pending_tool_calls
    last_event_type,        \* EventOrchestrator.last_event_type
    sent,                   \* events the SmartEventProcessor has yielded
    chunks,                 \* observer: chunks processed so far
    last_sent_time,         \* SmartEventProcessor.last_sent_time
    polls,                  \* observer: calls of check_pending_events
    session_agents,         \* BiomniAgentPool.session_agents, in insertion order
    session_memories,       \* BiomniAgentPool.session_memories: its keys
    user_sessions,          \* AuthenticationManager.user_sessions
    served                  \* observer: the last call of get_agent or
                            \* check_session_limit, and the order of use

vars == <<messages, next_step, node, steps, critic_count, user_task, log,
          other_session, self_critic,
          test_time_scale_round, llm, executor, last, tagless_run,
          executor_calls, output_queue, streaming_done, thread, consumer, events,
          current_chunk, a1_events, orch_events, clock, orchestrator_pending,
          pending_tool_calls, last_event_type, sent, chunks, last_sent_time,
          polls, session_agents, session_memories, user_sessions, served>>

ctl_vars == <<messages, next_step, node, steps, critic_count, user_task, log,
              other_session, last, tagless_run, executor_calls>>
\* the tables of server.py, which no step of a session touches
tbl_vars == <<session_agents, session_memories, user_sessions, served>>
\* what no step of a session changes
cfg_vars == <<self_critic, test_time_scale_round, llm, executor, tbl_vars>>
srv_vars == <<output_queue, streaming_done, thread, consumer, events>>
evt_vars == <<current_chunk, a1_events, orch_events, clock, orchestrator_pending,
              pending_tool_calls, last_event_type, sent, chunks, last_sent_time,
              polls>>

----------------------------------------------------------------------------
(* Text *)

Tok(k) == <<k, 0>>
Txt(n) == <<"txt", n>>
Ws(n) == <<"ws", n>>
Nl == <<"nl", 1>>
Whitespace == {"ws", "nl"}

RECURSIVE Digits(_)
Digits(n) == IF n < 10 THEN 1 ELSE 1 + Digits(n \div 10)

\* len() of the literal text of a token
TokLen(t) ==
    CASE t[1] \in {"txt", "ws", "nl"} -> t[2]
      [] t[1] = "<execute>" -> 9
      [] t[1] = "</execute>" -> 10
      [] t[1] = "<solution>" -> 10
      [] t[1] = "</solution>" -> 11
      [] t[1] = "<think>" -> 7
      [] t[1] = "</think>" -> 8
      [] t[1] = "<observation>" -> 13
      [] t[1] = "</observation>" -> 14
      [] t[1] = "There are no tags" -> 17
      [] t[1] = "there are no tags" -> 17
      [] t[1] = "[TRUNCATED DUE TO CONTEXT OVERFLOW - Original: N chars]" ->
             54 + Digits(t[2])
      [] t[1] = "[...truncated...]" -> 17
      [] t[1] = "[OUTPUT TRUNCATED: N total characters]" -> 37 + Digits(t[2])
      [] t[1] = "[Output length: N characters]" -> 28 + Digits(t[2])
      [] t[1] = "[First 10K characters shown below]" -> 34
      [] t[1] = "[Showing first 10K characters below]" -> 36
      [] t[1] = "[Contains N sequences/entries]" -> 29 + Digits(t[2])
      [] t[1] = "#!R" -> 3
      [] t[1] = "# R code" -> 8
      [] t[1] = "# R script" -> 10
      [] t[1] = "#!BASH" -> 6
      [] t[1] = "# Bash script" -> 13
      [] t[1] = "#!CLI" -> 5
      [] t[1] = "Execution terminated due to repeated parsing errors." -> 52
      [] t[1] = "Error: API authentication or endpoint configuration issue." -> 58
      [] t[1] = "Error: The context was too long for the model to process." -> 57
      [] t[1] = "Wait... this is not enough to solve the task." -> 45
      [] t[1] = "<observe>" -> 9
      [] t[1] = "</observe>" -> 10
      [] t[1] = "approach" -> 8
      [] t[1] \in {"[ ]", "[x]", "[U+2713]", "[U+2717]", "1. "} -> 3
      [] t[1] = "[done]" -> 6
      [] t[1] \in {"[U+201A U+00FA U+00EC]", "[U+201A U+00FA U+00F3]"} -> 5
      [] t[1] = "- " -> 2
      [] t[1] \in {"will", "plan"} -> 4
      [] t[1] = "Ai Message" -> 10
      [] t[1] = "Human Message" -> 13
      [] t[1] = "================================== Ai Message ==================================" -> 80
      [] t[1] = "final protocol:" -> 15
      [] t[1] = "pcr" -> 3
      [] OTHER -> 1

RECURSIVE StrLen(_)
StrLen(s) == IF s = <<>> THEN 0 ELSE TokLen(Head(s)) + StrLen(Tail(s))

\* s[:n]: a token cut in the middle leaves plain characters
RECURSIVE Take(_, _)
Take(s, n) ==
    IF n <= 0 \/ s = <<>> THEN <<>>
    ELSE IF TokLen(Head(s)) <= n
         THEN <<Head(s)>> \o Take(Tail(s), n - TokLen(Head(s)))
         ELSE IF Head(s)[1] \in Whitespace THEN <<<<Head(s)[1], n>>>> ELSE <<Txt(n)>>

\* k in s
Contains(s, k) == \E i \in 1..Len(s) : s[i][1] = k

\* s.strip()
RECURSIVE LStrip(_)
LStrip(s) == IF s # <<>> /\ Head(s)[1] \in Whitespace THEN LStrip(Tail(s)) ELSE s
RECURSIVE RStrip(_)
RStrip(s) ==
    IF s # <<>> /\ s[Len(s)][1] \in Whitespace THEN RStrip(SubSeq(s, 1, Len(s) - 1)) ELSE s
Strip(s) == RStrip(LStrip(s))

Min(S) == CHOOSE x \in S : \A y \in S : x <= y

\* re.search(open + "(.*?)" + close, s, re.DOTALL): the leftmost open tag and
\* the first close tag after it; <<0, 0>> when there is no match
Search(s, open, close) ==
    LET opens == {i \in 1..Len(s) : s[i][1] = open}
    IN  IF opens = {} THEN <<0, 0>>
        ELSE LET i == Min(opens)
                 closes == {j \in (i + 1)..Len(s) : s[j][1] = close}
             IN  IF closes = {} THEN <<0, 0>> ELSE <<i, Min(closes)>>

Matches(s, open, close) == Search(s, open, close) # <<0, 0>>

\* match.group(1)
Group1(s, open, close) ==
    LET m == Search(s, open, close) IN SubSeq(s, m[1] + 1, m[2] - 1)

----------------------------------------------------------------------------
(* Messages *)

AIMessage(c) == [role |-> "ai", content |-> c]
HumanMessage(c) == [role |-> "human", content |-> c]

\* generate: the corrective instruction (a1.py:1306-1308)
CorrectiveMessage ==
    HumanMessage(<<Txt(63), Tok("<execute>"), Txt(4), Tok("<solution>"), Txt(10),
                   Tok("there are no tags"), Txt(95)>>)

\* generate: the explanation of a forced end (a1.py:1299-1301)
TerminationMessage ==
    AIMessage(<<Tok("Execution terminated due to repeated parsing errors."), Txt(39)>>)

\* generate: the synthesized replies after a failed retry (a1.py:1251, 1253)
AuthErrorReply ==
    <<Tok("<solution>"),
      Tok("Error: API authentication or endpoint configuration issue."), Txt(79),
      Tok("</solution>")>>
ContextErrorReply ==
    <<Tok("<solution>"),
      Tok("Error: The context was too long for the model to process."), Txt(144),
      Tok("</solution>")>>

\* self_critic: the feedback message (a1.py:1457-1461)
CriticMessage(feedback) ==
    HumanMessage(<<Tok("Wait... this is not enough to solve the task."), Txt(41), Nl>>
                 \o feedback)

----------------------------------------------------------------------------
(* The model call and its failures *)

\* str.lower() on the words an error text is made of
Lower(w) ==
    CASE w = "Rate limit" -> "rate limit"
      [] w = "API key" -> "api key"
      [] w = "Context" -> "context"
      [] w = "Connection reset" -> "connection reset"
      [] w = "Received null response from LLM" -> "received null response from llm"
      [] w = "Still received null response after truncation" ->
             "still received null response after truncation"
      [] OTHER -> w

\* pattern in error_msg.lower()
ErrContains(text, pattern) == \E i \in 1..Len(text) : Lower(text[i]) = pattern

RecoverablePatterns ==
    {"null value for choices", "context", "token", "content filter", "rate limit"}

\* mutant: every failure is retried
RecoverableAlways(text) == TRUE

\* mutant: a null reply is retried like a rate limit
RecoverableOrNull(text) ==
    \/ \E p \in RecoverablePatterns : ErrContains(text, p)
    \/ text = <<"Received null response from LLM">>

\* generate: the test of a1.py:1210
Recoverable(text) == \E p \in RecoverablePatterns : ErrContains(text, p)

Ok(r) == [kind |-> "ok", content |-> r, text |-> <<>>]
Null == [kind |-> "null", content |-> <<>>, text |-> <<>>]
Raise(text) == [kind |-> "error", content |-> <<>>, text |-> text]

\* the error generate sees for an outcome of the first call (a1.py:1199-1206)
FirstError(o) ==
    IF o.kind = "null" THEN <<"Received null response from LLM">> ELSE o.text

\* the error generate sees for an outcome of the retry (a1.py:1239-1245)
RetryError(o) ==
    IF o.kind = "null" THEN <<"Still received null response after truncation">>
    ELSE o.text

----------------------------------------------------------------------------
(* generate (a1.py:1187-1311) *)

Max(S) == CHOOSE x \in S : \A y \in S : x >= y

\* the limit on the observation kept for the retry (a1.py:1222-1224)
OBS_RECOVERY_LIMIT == 2000

\* the rewritten observation message (a1.py:1225-1227)
TruncatedObservation(obs_content) ==
    AIMessage(<<Tok("<observation>"),
                <<"[TRUNCATED DUE TO CONTEXT OVERFLOW - Original: N chars]",
                  StrLen(obs_content)>>,
                Nl>>
              \o Take(obs_content, OBS_RECOVERY_LIMIT)
              \o <<Nl, Tok("[...truncated...]"), Tok("</observation>")>>)

\* the messages the backward loop of a1.py:1215-1229 can rewrite: the loop
\* stops (break) at the first of them it meets
Truncatable(msgs) ==
    {i \in 1..Len(msgs) :
        /\ msgs[i].role = "ai"
        /\ Contains(msgs[i].content, "<observation>")
        /\ Matches(msgs[i].content, "<observation>", "</observation>")
        /\ StrLen(Group1(msgs[i].content, "<observation>", "</observation>"))
               > OBS_RECOVERY_LIMIT}

\* mutant: the loop runs forward
TruncateIndexFirst(msgs) ==
    IF Truncatable(msgs) = {} THEN 0 ELSE Min(Truncatable(msgs))

\* index of the message the recovery rewrites, 0 when it rewrites none
TruncateIndex(msgs) ==
    IF Truncatable(msgs) = {} THEN 0 ELSE Max(Truncatable(msgs))

\* state["messages"] after the recovery loop
TruncateForRetry(msgs) ==
    IF TruncateIndex(msgs) = 0 THEN msgs
    ELSE [msgs EXCEPT ![TruncateIndex(msgs)] =
             TruncatedObservation(
                 Group1(msgs[TruncateIndex(msgs)].content,
                        "<observation>", "</observation>"))]

\* a1.py:1265-1271, one tag
CloseTag(msg, open, close) ==
    IF Contains(msg, open) /\ ~Contains(msg, close) THEN Append(msg, Tok(close))
    ELSE msg

\* a1.py:1265-1271
FixTags(msg) ==
    CloseTag(CloseTag(CloseTag(msg, "<execute>", "</execute>"),
                      "<solution>", "</solution>"),
             "<think>", "</think>")

\* a1.py:1289-1291
error_count(msgs) ==
    Cardinality({i \in 1..Len(msgs) :
                    /\ msgs[i].role = "ai"
                    /\ Contains(msgs[i].content, "There are no tags")})

\* mutant: a <think> block is not a recognized tag
RouteNoThink(msg) ==
    IF Matches(msg, "<solution>", "</solution>") THEN "end"
    ELSE IF Matches(msg, "<execute>", "</execute>") THEN "execute"
    ELSE "parsing error"

\* mutant: the execute block is looked for first
RouteExecuteFirst(msg) ==
    IF Matches(msg, "<execute>", "</execute>") THEN "execute"
    ELSE IF Matches(msg, "<solution>", "</solution>") THEN "end"
    ELSE IF Matches(msg, "<think>", "</think>") THEN "generate"
    ELSE "parsing error"

\* a1.py:1280-1285: the branch the reply takes
Route(msg) ==
    IF Matches(msg, "<solution>", "</solution>") THEN "end"
    ELSE IF Matches(msg, "<execute>", "</execute>") THEN "execute"
    ELSE IF Matches(msg, "<think>", "</think>") THEN "generate"
    ELSE "parsing error"

\* a1.py:1258-1311: what generate does with the reply text
ParseReply(msgs, reply) ==
    LET msg == FixTags(reply)
        appended == Append(msgs, AIMessage(Strip(msg)))
    IN  IF Route(msg) # "parsing error"
        THEN [messages |-> appended, next_step |-> Route(msg)]
        ELSE IF error_count(appended) >= 2
             THEN [messages |-> Append(appended, TerminationMessage),
                   next_step |-> "end"]
             ELSE [messages |-> Append(appended, CorrectiveMessage),
                   next_step |-> "generate"]

\* a1.py:1245-1253: the reply synthesized when the retry fails too
SynthesizedReply(text) ==
    IF ErrContains(text, "api key") \/ ErrContains(text, "endpoint")
    THEN AuthErrorReply ELSE ContextErrorReply

\* a1.py:1205-1210: the first call failed and the failure is recoverable
Retries(o1) == o1.kind # "ok" /\ Recoverable(FirstError(o1))

\* generate on state msgs, when the first model call ends as o1 and the
\* retry, if there is one, as o2
Generate(msgs, o1, o2) ==
    IF o1.kind = "ok"
    THEN [raised |-> FALSE, calls |-> 1, truncated |-> 0, reply |-> o1.content,
          error |-> <<>>, retry_error |-> <<>>, out |-> ParseReply(msgs, o1.content)]
    ELSE IF ~Retries(o1)
    THEN [raised |-> TRUE, calls |-> 1, truncated |-> 0, reply |-> <<>>,
          error |-> FirstError(o1), retry_error |-> <<>>,
          out |-> [messages |-> msgs, next_step |-> "none"]]
    ELSE LET reply == IF o2.kind = "ok" THEN o2.content
                      ELSE SynthesizedReply(RetryError(o2))
         IN  [raised |-> FALSE, calls |-> 2, truncated |-> TruncateIndex(msgs),
              reply |-> reply, error |-> FirstError(o1),
              retry_error |-> IF o2.kind = "ok" THEN <<>> ELSE RetryError(o2),
              out |-> ParseReply(TruncateForRetry(msgs), reply)]

----------------------------------------------------------------------------
(* execute (a1.py:1313-1416) *)

MAX_OUTPUT_LENGTH == 10000
SUMMARY_THRESHOLD == 5000
\* a1.py:1386: the prefix searched for ">"
FASTA_PROBE == 1000
\* a1.py:1394, 1400: "=" * 50
RULE_WIDTH == 50

R_MARKERS == {"#!R", "# R code", "# R script"}
BASH_MARKERS == {"#!BASH", "# Bash script"}
CLI_MARKERS == {"#!CLI"}

\* s.startswith(m) for some m of markers
StartsWith(s, markers) == s # <<>> /\ Head(s)[1] \in markers

\* re.sub("^m1|^m2...", "", code, 1).strip(): "^" is the start of the text
RemoveMarker(code, markers) ==
    Strip(IF StartsWith(code, markers) THEN Tail(code) ELSE code)

\* cli_command.replace("\n", " ")
RECURSIVE OneLine(_)
OneLine(s) ==
    IF s = <<>> THEN <<>>
    ELSE <<IF Head(s)[1] = "nl" THEN Ws(Head(s)[2]) ELSE Head(s)>> \o OneLine(Tail(s))

\* a1.py:1342-1372: the lane and the source handed to it
Lane(code) ==
    IF StartsWith(Strip(code), R_MARKERS)
    THEN [lane |-> "r", source |-> RemoveMarker(code, R_MARKERS)]
    ELSE IF StartsWith(Strip(code), BASH_MARKERS \cup CLI_MARKERS)
    THEN IF StartsWith(Strip(code), CLI_MARKERS)
         THEN [lane |-> "bash", source |-> OneLine(RemoveMarker(code, CLI_MARKERS))]
         ELSE [lane |-> "bash", source |-> RemoveMarker(code, BASH_MARKERS)]
    ELSE [lane |-> "python", source |-> code]

\* result.split('\n') and the count of lines that start with '>'
SequenceCount(result) ==
    Cardinality({i \in 1..Len(result) :
                    /\ result[i][1] = ">"
                    /\ (i = 1 \/ result[i - 1][1] = "nl")})

\* mutant: the header reports the length that is shown
LimitOutputShownLength(result) ==
    IF StrLen(result) > MAX_OUTPUT_LENGTH
    THEN <<<<"[OUTPUT TRUNCATED: N total characters]", MAX_OUTPUT_LENGTH>>, Nl,
           Tok("[First 10K characters shown below]"), Nl, Txt(RULE_WIDTH), Nl>>
         \o Take(result, MAX_OUTPUT_LENGTH)
    ELSE IF StrLen(result) > SUMMARY_THRESHOLD
    THEN <<<<"[Output length: N characters]", StrLen(result)>>, Nl>> \o result
    ELSE result

\* mutant: the length prefix starts at the hard ceiling
LimitOutputNoPrefix(result) ==
    IF StrLen(result) > MAX_OUTPUT_LENGTH
    THEN <<<<"[OUTPUT TRUNCATED: N total characters]", StrLen(result)>>, Nl,
           Tok("[First 10K characters shown below]"), Nl, Txt(RULE_WIDTH), Nl>>
         \o Take(result, MAX_OUTPUT_LENGTH)
    ELSE result

\* a1.py:1374-1407: the output-size policy
LimitOutput(result) ==
    IF StrLen(result) > MAX_OUTPUT_LENGTH
    THEN IF Contains(Take(result, FASTA_PROBE), ">")
         THEN <<<<"[OUTPUT TRUNCATED: N total characters]", StrLen(result)>>, Nl,
                <<"[Contains N sequences/entries]", SequenceCount(result)>>, Nl,
                Tok("[Showing first 10K characters below]"), Nl,
                Txt(RULE_WIDTH), Nl>>
              \o Take(result, MAX_OUTPUT_LENGTH)
         ELSE <<<<"[OUTPUT TRUNCATED: N total characters]", StrLen(result)>>, Nl,
                Tok("[First 10K characters shown below]"), Nl,
                Txt(RULE_WIDTH), Nl>>
              \o Take(result, MAX_OUTPUT_LENGTH)
    ELSE IF StrLen(result) > SUMMARY_THRESHOLD
    THEN <<<<"[Output length: N characters]", StrLen(result)>>, Nl>> \o result
    ELSE result

\* a1.py:1409-1410
Observation(result) ==
    AIMessage(Strip(<<Nl, Tok("<observation>")>> \o LimitOutput(result)
                    \o <<Tok("</observation>")>>))

\* a1.py:1321-1326: the code block of the last message
LastCode(msgs) ==
    LET last_message == CloseTag(msgs[Len(msgs)].content, "<execute>", "</execute>")
    IN  IF Matches(last_message, "<execute>", "</execute>")
        THEN [found |-> TRUE, code |-> Group1(last_message, "<execute>", "</execute>")]
        ELSE [found |-> FALSE, code |-> <<>>]

\* mutant: the observation takes the place of the last message
ExecuteOverwrite(msgs, result) ==
    IF LastCode(msgs).found
    THEN [msgs EXCEPT ![Len(msgs)] = Observation(result)] ELSE msgs

\* execute on state msgs, when the lane returns result
Execute(msgs, result) ==
    IF LastCode(msgs).found THEN Append(msgs, Observation(result)) ELSE msgs

----------------------------------------------------------------------------
(* self_critic (a1.py:1442-1467) *)

\* a1.py:1454-1459: the call is not guarded; a None reply has no .content
CriticError(o) ==
    IF o.kind = "null" THEN <<"'NoneType' object has no attribute 'content'">>
    ELSE o.text

\* mutant: one round too many
SelfCriticOneMore(msgs, count, rounds, o) ==
    IF count <= rounds /\ o.kind = "ok"
    THEN [raised |-> FALSE, calls |-> 1,
          messages |-> Append(msgs, CriticMessage(o.content)),
          count |-> count + 1, next_step |-> "generate", error |-> <<>>]
    ELSE [raised |-> FALSE, calls |-> 0, messages |-> msgs, count |-> count,
          next_step |-> "end", error |-> <<>>]

\* o is how the critic's model call ends; it is only made while rounds remain
SelfCritic(msgs, count, rounds, o) ==
    IF count < rounds
    THEN IF o.kind # "ok"
         THEN [raised |-> TRUE, calls |-> 1, messages |-> msgs, count |-> count,
               next_step |-> "none", error |-> CriticError(o)]
         ELSE [raised |-> FALSE, calls |-> 1,
               messages |-> Append(msgs, CriticMessage(o.content)),
               count |-> count + 1, next_step |-> "generate", error |-> <<>>]
    ELSE [raised |-> FALSE, calls |-> 0, messages |-> msgs, count |-> count,
          next_step |-> "end", error |-> <<>>]

----------------------------------------------------------------------------
(* A1._classify_message_multi (a1.py:1602-1723) *)

\* an event of a classifier; pos is an observer: the index of the token at
\* which the span the event was made from starts in the classified text
ClassifiedEvent(type, content, pos) ==
    [type |-> type, content |-> content, steps |-> <<>>, subtype |-> "",
     tool_id |-> 0, priority |-> "", pos |-> pos]

\* s.index(k), 1-based; Len(s) + 1 when k is not in s
IndexOf(s, k) ==
    IF Contains(s, k) THEN Min({i \in 1..Len(s) : s[i][1] = k}) ELSE Len(s) + 1

ContainsAny(s, ks) == \E k \in ks : Contains(s, k)

\* s.split('\n')
RECURSIVE Lines(_)
Lines(s) ==
    IF ~Contains(s, "nl") THEN <<s>>
    ELSE <<SubSeq(s, 1, IndexOf(s, "nl") - 1)>>
         \o Lines(SubSeq(s, IndexOf(s, "nl") + 1, Len(s)))

\* a1.py:1618, 1651: the check marks are stored in the source as the three
\* characters that their UTF-8 bytes give in another encoding
A1_MARKERS == {"[ ]", "[U+201A U+00FA U+00EC]", "[U+201A U+00FA U+00F3]"}

\* "\[.\]": a box around one character
OneCharBoxes == {"[ ]", "[x]", "[U+2713]", "[U+2717]"}

\* re.match(r'^\d+\.\s*\[.\]\s*', line)
NumberedBoxLine(line) ==
    /\ Len(line) >= 2
    /\ line[1][1] = "1. "
    /\ line[2][1] \in OneCharBoxes

\* a1.py:1629
A1Status(line) ==
    IF Contains(line, "[U+201A U+00FA U+00EC]") THEN "completed"
    ELSE IF Contains(line, "[U+201A U+00FA U+00F3]") THEN "failed"
    ELSE "pending"

\* a1.py:1625-1631
RECURSIVE A1PlanSteps(_)
A1PlanSteps(lines) ==
    IF lines = <<>> THEN <<>>
    ELSE (IF NumberedBoxLine(Head(lines))
          THEN <<[step |-> LStrip(SubSeq(Head(lines), 3, Len(Head(lines)))),
                  status |-> A1Status(Head(lines))]>>
          ELSE <<>>)
         \o A1PlanSteps(Tail(lines))

\* a1.py:1620-1622
PlanningContent(content) == SubSeq(content, 1, IndexOf(content, "<execute>") - 1)

\* a1.py:1618-1640
A1Planning(content) ==
    IF ContainsAny(content, A1_MARKERS)
         /\ A1PlanSteps(Lines(PlanningContent(content))) # <<>>
    THEN <<[ClassifiedEvent("planning", PlanningContent(content), 1)
              EXCEPT !.steps = A1PlanSteps(Lines(PlanningContent(content)))]>>
    ELSE <<>>

\* a1.py:1644-1648: the text before the first tag of the list that occurs
TextBeforeTags(content) ==
    IF Contains(content, "<execute>") THEN PlanningContent(content)
    ELSE IF Contains(content, "<solution>")
    THEN SubSeq(content, 1, IndexOf(content, "<solution>") - 1)
    ELSE IF Contains(content, "<observe>")
    THEN SubSeq(content, 1, IndexOf(content, "<observe>") - 1)
    ELSE IF Contains(content, "<think>")
    THEN SubSeq(content, 1, IndexOf(content, "<think>") - 1)
    ELSE content

\* the index of the first token of s that is not whitespace
FirstInk(s) == Len(s) - Len(LStrip(s)) + 1

\* a1.py:1650-1658
SUBSTANTIAL == 50

A1Reasoning(content) ==
    IF /\ Strip(TextBeforeTags(content)) # <<>>
       /\ ~ContainsAny(TextBeforeTags(content), A1_MARKERS)
       /\ StrLen(Strip(TextBeforeTags(content))) > SUBSTANTIAL
    THEN <<ClassifiedEvent("reasoning", Strip(TextBeforeTags(content)),
                           FirstInk(TextBeforeTags(content)))>>
    ELSE <<>>

\* a1.py:1666-1670
A1CodeType(code) ==
    IF StartsWith(Strip(code), {"#!R"}) THEN "r"
    ELSE IF StartsWith(Strip(code), {"#!BASH"}) THEN "bash"
    ELSE "python"

\* a1.py:1660-1712: one tagged block
A1Block(content, open, close, type) ==
    IF Contains(content, open) /\ Matches(content, open, close)
    THEN <<[ClassifiedEvent(type, Group1(content, open, close),
                            Search(content, open, close)[1])
              EXCEPT !.subtype = IF type = "tool_call"
                                 THEN A1CodeType(Group1(content, open, close))
                                 ELSE ""]>>
    ELSE <<>>

\* the events of a1.py:1618-1712, in the order they are appended
A1Extracted(content) ==
    A1Planning(content)
    \o A1Reasoning(content)
    \o A1Block(content, "<execute>", "</execute>", "tool_call")
    \o A1Block(content, "<observe>", "</observe>", "tool_output")
    \o A1Block(content, "<solution>", "</solution>", "final_result")
    \o A1Block(content, "<think>", "</think>", "thinking")

\* A1._classify_message_multi
classify_message_multi(content) ==
    IF A1Extracted(content) = <<>>
    THEN <<ClassifiedEvent("reasoning", content, 1)>>
    ELSE A1Extracted(content)

----------------------------------------------------------------------------
(* EventOrchestrator (biomni_a1_orchestrator.py:25-365) *)

AI_HEADER ==
    "================================== Ai Message =================================="

\* "Ai Message" in s: the header line contains the words too
HasAiMessage(s) == ContainsAny(s, {AI_HEADER, "Ai Message"})

\* chunk.startswith('=')
StartsWithEquals(s) == s # <<>> /\ Head(s)[1] \in {"=", AI_HEADER}

\* re.search(r'(?i)(thinking|plan|approach)', s)
PlanWords == {"plan", "approach"}
\* re.search(r'(?i)(thinking|analyzing|planning|approach|need to|will|should)', s)
ReasoningWords == {"approach", "will"}

\* '\n'.join(s.split('\n')[k:]): the text after the k-th newline
RECURSIVE DropLines(_, _)
DropLines(s, k) ==
    IF k = 0 THEN s
    ELSE IF ~Contains(s, "nl") THEN <<>>
    ELSE DropLines(SubSeq(s, IndexOf(s, "nl") + 1, Len(s)), k - 1)

\* the number of tokens DropLines(s, k) leaves out at the front
DroppedBy(s, k) == Len(s) - Len(DropLines(s, k))

\* orchestrator.py:51-60: the text after the first line that has "Ai Message"
AfterAiLine(s) ==
    LET i == Min({j \in 1..Len(s) : s[j][1] \in {AI_HEADER, "Ai Message"}})
    IN  DropLines(SubSeq(s, i, Len(s)), 1)

Boxes == OneCharBoxes \cup A1_MARKERS \cup {"[done]"}

\* extract_todos: a stripped line that one of the three patterns matches: an
\* optional number or bullet, a box, and some text after it
TodoLine(line) ==
    LET l == Strip(line)
    IN  \/ Len(l) >= 3 /\ l[1][1] \in {"1. ", "- "} /\ l[2][1] \in Boxes
        \/ Len(l) >= 2 /\ l[1][1] \in Boxes

\* orchestrator.py:307-316
TodoStatus(box) ==
    IF box \in {"[x]", "[U+2713]", "[done]"} THEN "completed"
    ELSE IF box = "[U+2717]" THEN "failed"
    ELSE "pending"

TodoOf(line) ==
    LET l == Strip(line)
        k == IF l[1][1] \in Boxes THEN 1 ELSE 2
    IN  [step |-> Strip(SubSeq(l, k + 1, Len(l))), status |-> TodoStatus(l[k][1])]

RECURSIVE TodosOfLines(_)
TodosOfLines(lines) ==
    IF lines = <<>> THEN <<>>
    ELSE (IF TodoLine(Head(lines)) THEN <<TodoOf(Head(lines))>> ELSE <<>>)
         \o TodosOfLines(Tail(lines))

\* EventOrchestrator.extract_todos
extract_todos(content) == TodosOfLines(Lines(content))

High(e) == [e EXCEPT !.priority = "HIGH"]
Normal(e) == [e EXCEPT !.priority = "NORMAL"]
PlanningEvent(todos, pos) == [ClassifiedEvent("planning", <<>>, pos) EXCEPT !.steps = todos]

\* "<x>" in chunk and "</x>" in chunk, and the regex matches
Block(c, open, close) ==
    Contains(c, open) /\ Contains(c, close) /\ Matches(c, open, close)

\* the events of es whose type is not in types
RECURSIVE Without(_, _)
Without(es, types) ==
    IF es = <<>> THEN <<>>
    ELSE (IF Head(es).type \in types THEN <<>> ELSE <<Head(es)>>)
         \o Without(Tail(es), types)

PROTOCOL_LENGTH == 300

\* EventOrchestrator.parse_chunk_with_llm on text whose first token is the
\* token off + 1 of the chunk that is classified
RECURSIVE parse_chunk_with_llm(_, _)
parse_chunk_with_llm(text, off) ==
    LET chunk == Strip(text)
        o == off + FirstInk(text) - 1
        ai_content == Strip(AfterAiLine(chunk))
        ai_off == o + (Len(chunk) - Len(AfterAiLine(chunk)))
                    + FirstInk(AfterAiLine(chunk)) - 1
        obs(c) == Search(c, "<observation>", "</observation>")
        exe == Search(chunk, "<execute>", "</execute>")
        before_code == Strip(SubSeq(chunk, 1, exe[1] - 1))
        content5 == DropLines(chunk, 2)
    IN
    IF chunk = <<>> THEN <<>>
    ELSE IF Contains(chunk, AI_HEADER) /\ ai_content # <<>>
    THEN \* priority 0 (orchestrator.py:49-108)
         (IF Contains(ai_content, "<observation>") /\ Contains(ai_content, "</observation>")
          THEN IF Matches(ai_content, "<observation>", "</observation>")
               THEN <<High(ClassifiedEvent("observation",
                               Strip(Group1(ai_content, "<observation>", "</observation>")),
                               ai_off + obs(ai_content)[1]))>>
                    \o (LET before == Strip(SubSeq(ai_content, 1, obs(ai_content)[1] - 1))
                            after == Strip(SubSeq(ai_content, obs(ai_content)[2] + 1,
                                                  Len(ai_content)))
                        IN  IF before # <<>> \/ after # <<>>
                            THEN <<Normal(ClassifiedEvent("ai_message",
                                       Strip(before \o <<Nl>> \o after),
                                       IF before # <<>> THEN ai_off + 1
                                       ELSE ai_off + obs(ai_content)[2] + 1))>>
                            ELSE <<>>)
               ELSE <<>>
          ELSE <<High(ClassifiedEvent("ai_message", ai_content, ai_off + 1))>>)
         \o (IF Contains(ai_content, "<execute>")
             THEN Without(parse_chunk_with_llm(ai_content, ai_off),
                          {"ai_message", "observation"})
             ELSE <<>>)
    ELSE IF Block(chunk, "<observation>", "</observation>")
    THEN \* priority 1 (orchestrator.py:111-131)
         <<High(ClassifiedEvent("observation",
                    Strip(Group1(chunk, "<observation>", "</observation>")),
                    o + obs(chunk)[1]))>>
         \o parse_chunk_with_llm(SubSeq(chunk, 1, obs(chunk)[1] - 1), o)
         \o parse_chunk_with_llm(SubSeq(chunk, obs(chunk)[2] + 1, Len(chunk)),
                                 o + obs(chunk)[2])
    ELSE IF Block(chunk, "<execute>", "</execute>")
    THEN \* priority 2 (orchestrator.py:134-178)
         (IF before_code = <<>> THEN <<>>
          ELSE IF extract_todos(before_code) # <<>>
          THEN <<PlanningEvent(extract_todos(before_code), o + 1)>>
          ELSE IF ContainsAny(before_code, PlanWords)
          THEN <<ClassifiedEvent("reasoning", before_code, o + 1)>>
          ELSE <<>>)
         \o <<High(ClassifiedEvent("tool_call",
                       Strip(Group1(chunk, "<execute>", "</execute>")), o + exe[1]))>>
         \o parse_chunk_with_llm(SubSeq(chunk, exe[2] + 1, Len(chunk)), o + exe[2])
    ELSE IF Block(chunk, "<solution>", "</solution>")
    THEN \* priority 3 (orchestrator.py:181-190)
         <<High(ClassifiedEvent("final_answer",
                    Strip(Group1(chunk, "<solution>", "</solution>")),
                    o + Search(chunk, "<solution>", "</solution>")[1]))>>
    ELSE IF /\ Contains(chunk, "final protocol:")
            /\ StrLen(chunk) > PROTOCOL_LENGTH
            /\ Contains(chunk, "pcr")
    THEN \* orchestrator.py:193-213
         <<High(ClassifiedEvent("final_answer", chunk, o + 1))>>
    ELSE IF extract_todos(chunk) # <<>>
    THEN \* priority 4 (orchestrator.py:216-223)
         <<PlanningEvent(extract_todos(chunk), o + 1)>>
    ELSE IF HasAiMessage(chunk)
    THEN \* priority 5 (orchestrator.py:226-258)
         IF Strip(content5) = <<>> THEN <<>>
         ELSE <<High(ClassifiedEvent("ai_message", content5,
                                     o + DroppedBy(chunk, 2) + 1))>>
              \o (IF extract_todos(content5) # <<>>
                  THEN <<PlanningEvent(extract_todos(content5),
                                       o + DroppedBy(chunk, 2) + 1)>>
                  ELSE <<>>)
              \o (IF Contains(content5, "<execute>")
                  THEN Without(parse_chunk_with_llm(content5, o + DroppedBy(chunk, 2)),
                               {"message"})
                  ELSE <<>>)
    ELSE IF Contains(chunk, "Human Message")
    THEN \* orchestrator.py:259-269
         IF Strip(content5) = <<>> THEN <<>>
         ELSE <<ClassifiedEvent("human_message", content5,
                                o + DroppedBy(chunk, 2) + 1)>>
    ELSE IF ContainsAny(chunk, ReasoningWords)
    THEN \* priority 6 (orchestrator.py:272-278)
         <<ClassifiedEvent("reasoning", chunk, o + 1)>>
    ELSE IF ~StartsWithEquals(chunk)
    THEN \* orchestrator.py:281-286
         <<ClassifiedEvent("message", chunk, o + 1)>>
    ELSE <<>>

----------------------------------------------------------------------------
(* The environment: replies, failures and execution results *)

\* bounds of the model
MaxSteps == 5
MaxRounds == 2
MaxLen == 4
StreamSteps == 3
TermSteps == 502

EO == Tok("<execute>")
EC == Tok("</execute>")
SO == Tok("<solution>")
SC == Tok("</solution>")
TO == Tok("<think>")
TC == Tok("</think>")
OO == Tok("<observation>")
OC == Tok("</observation>")

PlainReply == <<Txt(20)>>
PhraseReply == <<Tok("There are no tags"), Txt(20)>>
ThinkReply == <<TO, Txt(5), TC>>
ExecuteReply == <<Txt(5), EO, Txt(10), EC>>
SolutionReply == <<SO, Txt(1), SC, Nl>>
BothReply == <<EO, Txt(10), EC, SO, Txt(1), SC>>

\* replies of a model in an ordinary session
SessionReplies ==
    {PlainReply, PhraseReply, ThinkReply, ExecuteReply, SolutionReply, BothReply}

\* every reply of at most MaxLen tokens
ParserTokens == {EO, EC, SO, SC, TO, TC, Txt(5)}
AllReplies == UNION {[1..n -> ParserTokens] : n \in 1..MaxLen}

RateLimitError == <<"Rate limit", " exceeded">>
ApiKeyError == <<"Invalid ", "API key">>

\* what a failing model call raises
ErrorTexts == {RateLimitError, ApiKeyError}

Outcomes(replies) ==
    {Ok(r) : r \in replies} \cup {Null} \cup {Raise(e) : e \in ErrorTexts}

\* what the Action Executor can return
Results == { <<Txt(1)>>, <<Txt(3000)>> }

Prompts == { <<Txt(11)>> }

\* the model under test: a model of ordinary sessions, one that can give
\* every short reply, or one whose calls end in one of a few fixed ways
SessionModel == [kind |-> "session", outcomes |-> {}]
ParserModel == [kind |-> "parser", outcomes |-> {}]
FixedModel(outcomes) == [kind |-> "fixed", outcomes |-> outcomes]

\* the ways a call of model l can end
ModelCall(l) ==
    CASE l.kind = "session" -> Outcomes(SessionReplies)
      [] l.kind = "parser" -> {Ok(r) : r \in AllReplies}
      [] l.kind = "fixed" -> l.outcomes

\* <<model, executor, self_critic>>: models that never let a session finish
\* by itself, and two that do
Adversaries ==
    { <<FixedModel({Ok(PlainReply)}), {<<Txt(1)>>}, FALSE>>,
      <<FixedModel({Ok(ThinkReply)}), {<<Txt(1)>>}, FALSE>>,
      <<FixedModel({Ok(ThinkReply)}), {<<Txt(1)>>}, TRUE>>,
      <<FixedModel({Ok(ExecuteReply)}), {<<Txt(1)>>}, FALSE>>,
      <<FixedModel({Ok(ExecuteReply)}), {<<Txt(3000)>>}, TRUE>>,
      <<FixedModel({Ok(ThinkReply), Raise(RateLimitError)}), {<<Txt(1)>>}, FALSE>>,
      <<FixedModel({Ok(PhraseReply)}), {<<Txt(1)>>}, FALSE>>,
      <<FixedModel({Ok(SolutionReply)}), {<<Txt(1)>>}, TRUE>> }

\* how far around the thresholds of execute the result lengths go
Slack == 1

AllMarkers == R_MARKERS \cup BASH_MARKERS \cup CLI_MARKERS

\* code blocks: without a marker, with a marker first, with a marker after
\* leading whitespace, and with a marker further down
Codes ==
    { <<Txt(10)>>, <<Nl, Txt(10), Nl>> }
    \cup { <<Tok(m), Nl, Txt(10)>> : m \in AllMarkers }
    \cup { <<Nl, Tok(m), Nl, Txt(10), Nl>> : m \in AllMarkers }
    \cup { <<Txt(3), Nl, Tok(m), Txt(4)>> : m \in AllMarkers }

CodeReplies == { <<EO>> \o c \o <<EC>> : c \in Codes }

ResultLengths ==
    {1, 12000}
    \cup { SUMMARY_THRESHOLD + d : d \in (0 - Slack)..Slack }
    \cup { MAX_OUTPUT_LENGTH + d : d \in (0 - Slack)..Slack }

\* results of n characters: plain, FASTA-like, with a '>' line beyond the
\* probed prefix, and with whitespace at both ends
ResultForms(n) ==
    { <<Txt(n)>> }
    \cup IF n > 3000
         THEN { <<Tok(">"), Txt(n - 1)>>,
                <<Txt(2000), Nl, Tok(">"), Txt(n - 2002)>>,
                <<Nl, Txt(n - 2), Nl>> }
         ELSE {}

ExecResults == UNION { ResultForms(n) : n \in ResultLengths }

\* bounds of the classified texts and of the chunk stream
MaxSegments == 3
MaxChunks == 3
MaxPolls == 3
MaxNewSessions == 12
MaxReturning == 2

\* what a classified text is made of: free text, text with a reasoning word,
\* checklist lines, tagged blocks, headers of printed messages
Segments ==
    { <<Txt(60)>>, <<Txt(10)>>, <<Tok("approach"), Txt(10)>>,
      <<Nl, Tok("1. "), Tok("[ ]"), Txt(8), Nl>>,
      <<Nl, Tok("- "), Tok("[ ]"), Txt(8), Nl>>,
      <<Nl, Tok("1. "), Tok("[U+2713]"), Txt(8), Nl>>,
      <<Nl, Tok("1. "), Tok("[U+201A U+00FA U+00EC]"), Txt(8), Nl>>,
      <<EO, Txt(10), EC>>, <<OO, Txt(10), OC>>, <<SO, Txt(10), SC>>,
      <<TO, Txt(10), TC>>,
      <<SO, Nl, Tok("1. "), Tok("[ ]"), Txt(8), Nl, Txt(10), SC>>,
      <<Tok(AI_HEADER), Nl, Nl>>, <<Tok("="), Txt(3)>>, <<Ws(1)>> }

RECURSIVE Texts(_)
Texts(n) ==
    IF n = 0 THEN {<<>>}
    ELSE {t \o g : t \in Texts(n - 1), g \in Segments} \cup Texts(n - 1)

ClassifierInputs == Texts(MaxSegments) \ {<<>>}

\* the chunks of a stream
StreamChunks ==
    { <<Tok(AI_HEADER), Nl, Nl, Txt(60), EO, Txt(10), EC>>,
      <<EO, Txt(10), EC, Txt(10), EO, Txt(12), EC>>,
      <<Tok(AI_HEADER), Nl, Nl, OO, Txt(10), OC>>,
      <<Txt(20)>>,
      <<Tok(AI_HEADER), Nl, Nl, SO, Txt(10), SC>> }

----------------------------------------------------------------------------
(* The graph (a1.py:1469-1506) and its runs (A1.go, A1.go_stream) *)

\* a1.py:1740, 1770: config["recursion_limit"]
recursion_limit == 500

Nodes == {"generate", "execute", "self_critic"}

NoStep ==
    [node |-> "none", calls |-> 0, truncated |-> 0, reply |-> <<>>,
     raised |-> FALSE, error |-> <<>>, retry_error |-> <<>>, appended |-> 0,
     lane |-> "none", source |-> <<>>, result |-> <<>>]

\* mutant: the limit is checked one step late
WithinLimitLate(n) == n <= recursion_limit

\* the super-step limit of the graph run
WithinLimit(n) == n < recursion_limit

\* mutant: "generate" is mapped to the execute node
routing_function_swapped(step, critic) ==
    CASE step = "execute" -> "execute"
      [] step = "generate" -> "execute"
      [] step = "end" -> IF critic THEN "self_critic" ELSE "END"

\* mutant: the end of generate is routed back to generate
routing_function_no_end(step, critic) ==
    CASE step = "execute" -> "execute"
      [] step = "generate" -> "generate"
      [] step = "end" -> IF critic THEN "self_critic" ELSE "generate"

\* a1.py:1418-1429 with the path_map of a1.py:1479-1499
routing_function(step, critic) ==
    CASE step = "execute" -> "execute"
      [] step = "generate" -> "generate"
      [] step = "end" -> IF critic THEN "self_critic" ELSE "END"

\* a1.py:1431-1440 with the path_map of a1.py:1488-1492
routing_function_self_critic(step) ==
    CASE step = "generate" -> "generate"
      [] step = "end" -> "END"

\* langchain's title line of a printed human message, which
\* biomni.utils.pretty_print puts before the content
HUMAN_HEADER == <<Tok("="), Ws(1), Tok("Human Message"), Ws(1), Tok("=")>>

\* out = pretty_print(message) (a1.py:1775): the title line of the message
\* type, an empty line, the content
pretty_print(m) ==
    (IF m.role = "human" THEN HUMAN_HEADER ELSE <<Tok(AI_HEADER)>>)
        \o <<Nl, Nl>> \o m.content

\* a1.py:1744-1746, 1774-1776: the last message of every state of the run is
\* printed and appended to self.log
LogState(msgs) == log' = Append(log, pretty_print(msgs[Len(msgs)]))

\* A1.go / A1.go_stream up to the first state of the run, the input
\* (a1.py:1732-1746, 1762-1776)
Go ==
    /\ node = "idle"
    /\ \E prompt \in Prompts :
          /\ messages' = <<HumanMessage(prompt)>>
          /\ user_task' = prompt
          /\ log' = <<pretty_print(HumanMessage(prompt))>>
    /\ next_step' = "none"
    /\ critic_count' = 0
    /\ UNCHANGED other_session
    /\ steps' = 0
    /\ node' = "generate"
    /\ last' = NoStep
    /\ tagless_run' = 0
    /\ executor_calls' = 0
    /\ UNCHANGED cfg_vars

\* the generate node and the conditional edge after it
GenerateStep(cap) ==
    /\ node = "generate"
    /\ WithinLimit(steps) /\ steps < cap
    /\ \E o1 \in ModelCall(llm) :
        \E o2 \in IF Retries(o1) THEN ModelCall(llm) ELSE {Null} :
          \E g \in {Generate(messages, o1, o2)} :
              /\ last' = [NoStep EXCEPT !.node = "generate", !.calls = g.calls,
                              !.truncated = g.truncated, !.reply = g.reply,
                              !.raised = g.raised, !.error = g.error,
                              !.retry_error = g.retry_error,
                              !.appended = Len(g.out.messages) - Len(messages)]
              /\ IF g.raised
                 THEN /\ node' = "raised"
                      /\ UNCHANGED <<messages, next_step, tagless_run, log>>
                 ELSE /\ messages' = g.out.messages
                      /\ LogState(g.out.messages)
                      /\ next_step' = g.out.next_step
                      /\ node' = routing_function(g.out.next_step, self_critic)
                      /\ tagless_run' =
                             IF Route(FixTags(g.reply)) = "parsing error"
                             THEN tagless_run + 1 ELSE 0
    /\ steps' = steps + 1
    /\ UNCHANGED <<critic_count, executor_calls, user_task, other_session>>
    /\ UNCHANGED cfg_vars

\* the execute node and the edge to generate (a1.py:1500)
ExecuteStep(cap) ==
    /\ node = "execute"
    /\ WithinLimit(steps) /\ steps < cap
    /\ \E result \in executor :
        \E c \in {LastCode(messages)} :
          /\ messages' = Execute(messages, result)
          /\ LogState(Execute(messages, result))
          /\ last' = [NoStep EXCEPT !.node = "execute",
                          !.appended = Len(Execute(messages, result)) - Len(messages),
                          !.lane = IF c.found THEN Lane(c.code).lane ELSE "none",
                          !.source = IF c.found THEN Lane(c.code).source ELSE <<>>,
                          !.result = result]
          /\ executor_calls' = IF c.found THEN executor_calls + 1 ELSE executor_calls
    /\ node' = "generate"
    /\ steps' = steps + 1
    /\ UNCHANGED <<next_step, critic_count, tagless_run, user_task, other_session>>
    /\ UNCHANGED cfg_vars

\* the self_critic node and the conditional edge after it
SelfCriticStep(cap) ==
    /\ node = "self_critic"
    /\ WithinLimit(steps) /\ steps < cap
    /\ \E o \in IF critic_count < test_time_scale_round THEN ModelCall(llm)
                ELSE {Null} :
          \E c \in {SelfCritic(messages, critic_count, test_time_scale_round, o)} :
              /\ last' = [NoStep EXCEPT !.node = "self_critic", !.calls = c.calls,
                              !.raised = c.raised, !.error = c.error,
                              !.appended = Len(c.messages) - Len(messages)]
              /\ IF c.raised
                 THEN /\ node' = "raised"
                      /\ UNCHANGED <<messages, next_step, critic_count, log>>
                 ELSE /\ messages' = c.messages
                      /\ LogState(c.messages)
                      /\ critic_count' = c.count
                      /\ next_step' = c.next_step
                      /\ node' = routing_function_self_critic(c.next_step)
    /\ steps' = steps + 1
    /\ UNCHANGED <<tagless_run, executor_calls, user_task, other_session>>
    /\ UNCHANGED cfg_vars

\* the graph run stops with GraphRecursionError at the super-step limit
RecursionError ==
    /\ node \in Nodes
    /\ ~WithinLimit(steps)
    /\ node' = "raised"
    /\ last' = [NoStep EXCEPT !.node = "recursion_limit", !.raised = TRUE,
                    !.error = <<"GraphRecursionError">>]
    /\ UNCHANGED <<messages, next_step, steps, critic_count, tagless_run,
                   executor_calls, user_task, log, other_session>>
    /\ UNCHANGED cfg_vars

\* A second request served at the same time: initialize_agent returns the one
\* global A1 instance (v4:73-82), and stream_a1_events_v4 calls go_stream on
\* it in a thread of its own (v4:870, 890-903).  Of that session the model
\* keeps what it does to the fields of the instance.
OtherPrompts == { <<Txt(12)>> }

\* a1.py:1762-1776: the other go_stream up to its first state
OtherGoStream ==
    /\ other_session = "none"
    /\ \E prompt \in OtherPrompts :
          /\ user_task' = prompt
          /\ log' = <<pretty_print(HumanMessage(prompt))>>
    /\ critic_count' = 0
    /\ other_session' = "running"
    /\ UNCHANGED <<messages, next_step, node, steps, last, tagless_run,
                   executor_calls>>
    /\ UNCHANGED cfg_vars

\* a1.py:1773-1776: a further state of the other run
OtherStep(cap) ==
    /\ other_session = "running"
    /\ Len(log) < cap
    /\ log' = Append(log, pretty_print(AIMessage(<<Txt(7)>>)))
    /\ UNCHANGED <<messages, next_step, node, steps, last, tagless_run,
                   executor_calls, critic_count, user_task, other_session>>
    /\ UNCHANGED cfg_vars

\* a1.py:1443, 1462: execute_self_critic in the other run
OtherSelfCritic ==
    /\ other_session = "running"
    /\ self_critic
    /\ critic_count < test_time_scale_round
    /\ critic_count' = critic_count + 1
    /\ UNCHANGED <<messages, next_step, node, steps, last, tagless_run,
                   executor_calls, log, user_task, other_session>>
    /\ UNCHANGED cfg_vars

----------------------------------------------------------------------------
(* stream_a1_events_v4 (biomni_a1_advanced_server_v4.py:866-957) *)

\* v4:892-894: output_queue.put(('content', output['output']))
ContentItem(msgs) == [kind |-> "content", text |-> pretty_print(msgs[Len(msgs)])]
DoneItem == [kind |-> "done", text |-> <<>>]
ErrorItem(text) == [kind |-> "error", text |-> text]

Event(type, content) == [type |-> type, content |-> content]

\* v4:886-902: the consumer creates the queue and starts the agent thread
ServerStart ==
    /\ consumer = "idle" /\ thread = "none"
    /\ thread' = "running"
    /\ consumer' = "get"
    /\ UNCHANGED <<output_queue, streaming_done, events>>
    /\ UNCHANGED ctl_vars /\ UNCHANGED cfg_vars

\* v4:870-878: initialize_agent() returned None
AgentUnavailable ==
    /\ consumer = "idle" /\ thread = "none"
    /\ events' = <<Event("error", <<Tok("Agent initialization failed."), Txt(28)>>)>>
    /\ consumer' = "closed"
    /\ UNCHANGED <<output_queue, streaming_done, thread>>
    /\ UNCHANGED ctl_vars /\ UNCHANGED cfg_vars

\* v4:892-894: one state of go_stream: stream_agent enqueues what the step
\* yielded; a step that raised yields nothing
ThreadStep(step) ==
    /\ thread = "running"
    /\ step
    /\ output_queue' = IF node' = "raised" THEN output_queue
                       ELSE Append(output_queue, ContentItem(messages'))
    /\ UNCHANGED <<streaming_done, thread, consumer, events>>

\* v4:895: the generator is exhausted
ThreadDone ==
    /\ thread = "running" /\ node = "END"
    /\ output_queue' = Append(output_queue, DoneItem)
    /\ thread' = "finally"
    /\ UNCHANGED <<streaming_done, consumer, events>>
    /\ UNCHANGED ctl_vars /\ UNCHANGED cfg_vars

\* v4:896-897: the generator raised
ThreadError ==
    /\ thread = "running" /\ node = "raised"
    /\ output_queue' = Append(output_queue, ErrorItem(last.error))
    /\ thread' = "finally"
    /\ UNCHANGED <<streaming_done, consumer, events>>
    /\ UNCHANGED ctl_vars /\ UNCHANGED cfg_vars

\* v4:898-899
ThreadFinally ==
    /\ thread = "finally"
    /\ streaming_done' = TRUE
    /\ thread' = "exited"
    /\ UNCHANGED <<output_queue, consumer, events>>
    /\ UNCHANGED ctl_vars /\ UNCHANGED cfg_vars

\* the tool_call events of es
ToolCallCount(es) == Cardinality({i \in 1..Len(es) : es[i].type = "tool_call"})

\* orchestrator.py:138: tool_id = f"tool_{int(time.time()*1000)}", read once
\* for each tool call of the chunk: ts[k] is the k-th reading
RECURSIVE AssignIds(_, _)
AssignIds(es, ts) ==
    IF es = <<>> THEN <<>>
    ELSE IF Head(es).type = "tool_call"
    THEN <<[Head(es) EXCEPT !.tool_id = Head(ts)]>> \o AssignIds(Tail(es), Tail(ts))
    ELSE <<Head(es)>> \o AssignIds(Tail(es), ts)

\* the clock readings of n calls that follow each other within a millisecond
\* or two, the first at time now
Readings(n, now) ==
    {ts \in [1..n -> now..(now + 1)] : \A i \in 1..(n - 1) : ts[i] <= ts[i + 1]}

\* orchestrator.py:339, 345: await asyncio.sleep(0.01)
SLEEP_MS == 10

ALWAYS_YIELDED == {"tool_call", "tool_output", "planning"}

\* mutant: a high-priority event updates last_event_type
RECURSIVE process_chunk_stream_high_updates(_, _)
process_chunk_stream_high_updates(es, last_type) ==
    IF es = <<>> THEN [out |-> <<>>, last |-> last_type]
    ELSE IF Head(es).priority = "HIGH"
    THEN LET r == process_chunk_stream_high_updates(Tail(es), Head(es).type)
         IN  [out |-> <<Head(es)>> \o r.out, last |-> r.last]
    ELSE IF Head(es).type # last_type \/ Head(es).type \in ALWAYS_YIELDED
    THEN LET r == process_chunk_stream_high_updates(Tail(es), Head(es).type)
         IN  [out |-> <<Head(es)>> \o r.out, last |-> r.last]
    ELSE process_chunk_stream_high_updates(Tail(es), last_type)

\* mutant: the duplicate filter is applied to high-priority events too
RECURSIVE process_chunk_stream_filters_high(_, _)
process_chunk_stream_filters_high(es, last_type) ==
    IF es = <<>> THEN [out |-> <<>>, last |-> last_type]
    ELSE IF Head(es).type # last_type \/ Head(es).type \in ALWAYS_YIELDED
    THEN LET r == process_chunk_stream_filters_high(Tail(es), Head(es).type)
         IN  [out |-> <<Head(es)>> \o r.out, last |-> r.last]
    ELSE process_chunk_stream_filters_high(Tail(es), last_type)

\* EventOrchestrator.process_chunk_stream (orchestrator.py:334-345): the
\* events yielded for the parsed events es, and last_event_type afterwards
RECURSIVE process_chunk_stream(_, _)
process_chunk_stream(es, last_type) ==
    IF es = <<>> THEN [out |-> <<>>, last |-> last_type]
    ELSE IF Head(es).priority = "HIGH"
    THEN LET r == process_chunk_stream(Tail(es), last_type)
         IN  [out |-> <<Head(es)>> \o r.out, last |-> r.last]
    ELSE IF Head(es).type # last_type \/ Head(es).type \in ALWAYS_YIELDED
    THEN LET r == process_chunk_stream(Tail(es), Head(es).type)
         IN  [out |-> <<Head(es)>> \o r.out, last |-> r.last]
    ELSE process_chunk_stream(Tail(es), last_type)

\* pending[id] = t
Put(pending, id, t) ==
    IF \E i \in 1..Len(pending) : pending[i].tool_id = id
    THEN [i \in 1..Len(pending) |->
             IF pending[i].tool_id = id THEN [tool_id |-> id, sent_time |-> t]
             ELSE pending[i]]
    ELSE Append(pending, [tool_id |-> id, sent_time |-> t])

\* the elements of s at the indices in keep, in order
Keep(s, keep) ==
    LET F[i \in 0..Len(s)] ==
            IF i = 0 THEN <<>>
            ELSE IF i \in keep THEN Append(F[i - 1], s[i]) ELSE F[i - 1]
    IN  F[Len(s)]

\* del pending[id]
Del(pending, id) ==
    Keep(pending, {i \in 1..Len(pending) : pending[i].tool_id # id})

\* event.get("tool_id") of an event the orchestrator parsed is None unless
\* the event is a tool_call: tool_id 0 stands for None
HasToolId(e) == e.tool_id # 0

\* SmartEventProcessor.process_agent_output (orchestrator.py:389-409): the
\* pending records after the events es were yielded from time t on
RECURSIVE TrackToolCalls(_, _, _)
TrackToolCalls(es, pending, t) ==
    IF es = <<>> THEN pending
    ELSE TrackToolCalls(Tail(es),
                        IF Head(es).type = "tool_call"
                        THEN Put(pending, Head(es).tool_id, t)
                        ELSE IF /\ Head(es).type \in {"tool_output", "observation"}
                                /\ HasToolId(Head(es))
                        THEN Del(pending, Head(es).tool_id)
                        ELSE pending,
                        t + SLEEP_MS)

Classified(by, text) == [by |-> by, text |-> text]

\* SmartEventProcessor.process_agent_output(content) (orchestrator.py:380-409)
\* with EventOrchestrator.process_chunk_stream
ProcessContent(content) ==
    /\ current_chunk' = Classified("orchestrator", content)
    /\ IF Strip(content) = <<>>
       THEN /\ orch_events' = <<>>
            /\ UNCHANGED <<clock, orchestrator_pending, pending_tool_calls,
                           last_event_type, sent, last_sent_time>>
       ELSE \E parsed \in {parse_chunk_with_llm(content, 0)} :
            \E ts \in Readings(ToolCallCount(parsed), clock) :
            \E es \in {AssignIds(parsed, ts)} :
            \E y \in {process_chunk_stream(es, last_event_type)} :
            \E t0 \in {IF ts = <<>> THEN clock ELSE ts[Len(ts)]} :
               /\ orch_events' = es
               /\ orchestrator_pending' =
                      orchestrator_pending
                      \cup {es[i].tool_id : i \in {j \in 1..Len(es) :
                                                     es[j].type = "tool_call"}}
               /\ last_event_type' = y.last
               /\ sent' = sent \o y.out
               /\ pending_tool_calls' = TrackToolCalls(y.out, pending_tool_calls, t0)
               /\ last_sent_time' =
                      IF y.out = <<>> THEN last_sent_time
                      ELSE t0 + SLEEP_MS * (Len(y.out) - 1)
               /\ clock' = t0 + SLEEP_MS * Len(y.out)
    /\ chunks' = chunks + 1
    /\ UNCHANGED <<a1_events, polls>>

\* SmartEventProcessor.process_agent_output on one chunk of inputs
ProcessAgentOutput(inputs, cap) ==
    /\ chunks < cap
    /\ \E content \in inputs : ProcessContent(content)
    /\ UNCHANGED <<ctl_vars, cfg_vars, srv_vars>>

\* orchestrator.py:378: self.tool_timeout = 600.0
TOOL_TIMEOUT_MS == 600000

\* orchestrator.py:434: time.time() - self.last_sent_time > 2.0
IDLE_MS == 2000

\* v4:939: await asyncio.sleep(0.1)
POLL_MS == 100

\* orchestrator.py:420-427
TimeoutEvent(id) ==
    [type |-> "observation", tool_id |-> id,
     content |-> <<Tok("Tool execution timed out after 30 seconds."), Txt(88)>>,
     output |-> <<Tok("Tool execution timed out. Continuing...")>>,
     timeout |-> TRUE]

\* orchestrator.py:356-362
PlaceholderEvent(id) ==
    [type |-> "tool_output", tool_id |-> id, output |-> <<Tok("Processing...")>>,
     placeholder |-> TRUE]

\* the ids of a dict keyed by tool id, in insertion order: ids are clock
\* readings, so a later key is a larger one
RECURSIVE Ascending(_)
Ascending(ids) ==
    IF ids = {} THEN <<>>
    ELSE <<Min(ids)>> \o Ascending(ids \ {Min(ids)})

\* EventOrchestrator.ensure_event_completion (orchestrator.py:347-365): a
\* placeholder for every call the orchestrator holds, which it then forgets
ensure_event_completion(ids) ==
    [i \in 1..Cardinality(ids) |-> PlaceholderEvent(Ascending(ids)[i])]

\* mutant: the record of a timed-out call is not deleted
check_pending_events_keeps(pending, ids, now, sent_time) ==
    LET old == {i \in 1..Len(pending) :
                   now - pending[i].sent_time > TOOL_TIMEOUT_MS}
        timed_out == Keep(pending, old)
        idle == now - sent_time > IDLE_MS
    IN  [out |-> [i \in 1..Len(timed_out) |-> TimeoutEvent(timed_out[i].tool_id)]
                     \o (IF idle THEN ensure_event_completion(ids) ELSE <<>>),
         pending |-> pending,
         orchestrator_pending |-> IF idle THEN {} ELSE ids]

\* SmartEventProcessor.check_pending_events (orchestrator.py:411-438) called
\* at time now: the events it yields and the records it leaves
check_pending_events(pending, ids, now, sent_time) ==
    LET old == {i \in 1..Len(pending) :
                   now - pending[i].sent_time > TOOL_TIMEOUT_MS}
        timed_out == Keep(pending, old)
        idle == now - sent_time > IDLE_MS
    IN  [out |-> [i \in 1..Len(timed_out) |-> TimeoutEvent(timed_out[i].tool_id)]
                     \o (IF idle THEN ensure_event_completion(ids) ELSE <<>>),
         pending |-> Keep(pending, (1..Len(pending)) \ old),
         orchestrator_pending |-> IF idle THEN {} ELSE ids]

\* what the wait before a call of check_pending_events can last, in
\* milliseconds: the poll interval of the caller (v4:939), or longer than the
\* idle limit, or longer than the tool timeout, while the agent is busy
Delays == {POLL_MS, IDLE_MS + POLL_MS, TOOL_TIMEOUT_MS + POLL_MS}

\* check_pending_events after a wait of d milliseconds
CheckPending(d) ==
    \E c \in {check_pending_events(pending_tool_calls, orchestrator_pending,
                                   clock + d, last_sent_time)} :
       /\ clock' = clock + d
       /\ sent' = sent \o c.out
       /\ pending_tool_calls' = c.pending
       /\ orchestrator_pending' = c.orchestrator_pending
       /\ polls' = polls + 1
       /\ UNCHANGED <<current_chunk, a1_events, orch_events, last_event_type,
                      chunks, last_sent_time>>

\* the caller of the processor polls it between two chunks
CheckPendingEvents(cap) ==
    /\ polls < cap
    /\ \E d \in Delays : CheckPending(d)
    /\ UNCHANGED <<ctl_vars, cfg_vars, srv_vars>>

\* v4:908-925: get_nowait returned an item; a content item goes through
\* processor.process_agent_output and what that yields goes to the caller
ConsumerGet ==
    /\ consumer = "get" /\ output_queue # <<>>
    /\ output_queue' = Tail(output_queue)
    /\ \E item \in {Head(output_queue)} :
          CASE item.kind = "done" ->
                 /\ consumer' = "final"
                 /\ UNCHANGED events
                 /\ UNCHANGED evt_vars
            [] item.kind = "error" ->
                 /\ events' = Append(events, Event("error", item.text))
                 /\ consumer' = "final"
                 /\ UNCHANGED evt_vars
            [] item.kind = "content" ->
                 /\ ProcessContent(item.text)
                 /\ events' = events \o SubSeq(sent', Len(sent) + 1, Len(sent'))
                 /\ consumer' = "check"
    /\ UNCHANGED <<streaming_done, thread>>
    /\ UNCHANGED ctl_vars /\ UNCHANGED cfg_vars

\* v4:926-928: get_nowait raised Empty
ConsumerEmpty(cap) ==
    /\ consumer = "get" /\ output_queue = <<>>
    /\ polls < cap
    /\ consumer' = "check"
    /\ UNCHANGED <<output_queue, streaming_done, thread, events>>
    /\ UNCHANGED evt_vars
    /\ UNCHANGED ctl_vars /\ UNCHANGED cfg_vars

\* mutant: the loop is left as soon as streaming_done is set
ConsumerCheckHasty(delays) ==
    /\ consumer = "check"
    /\ \E c \in {check_pending_events(pending_tool_calls, orchestrator_pending,
                                      clock, last_sent_time)} :
          /\ events' = events \o c.out
          /\ sent' = sent \o c.out
          /\ pending_tool_calls' = c.pending
          /\ orchestrator_pending' = c.orchestrator_pending
    /\ polls' = polls + 1
    /\ IF streaming_done
       THEN consumer' = "final" /\ UNCHANGED clock
       ELSE consumer' = "get" /\ \E d \in delays : clock' = clock + d
    /\ UNCHANGED <<current_chunk, a1_events, orch_events, last_event_type, chunks,
                   last_sent_time>>
    /\ UNCHANGED <<output_queue, streaming_done, thread>>
    /\ UNCHANGED ctl_vars /\ UNCHANGED cfg_vars

\* v4:930-939: check_pending_events, then leave the loop, or sleep and poll
\* again; the loop resumes after the poll interval or later
ConsumerCheck(delays) ==
    /\ consumer = "check"
    /\ \E c \in {check_pending_events(pending_tool_calls, orchestrator_pending,
                                      clock, last_sent_time)} :
          /\ events' = events \o c.out
          /\ sent' = sent \o c.out
          /\ pending_tool_calls' = c.pending
          /\ orchestrator_pending' = c.orchestrator_pending
    /\ polls' = polls + 1
    /\ IF streaming_done /\ output_queue = <<>>
       THEN consumer' = "final" /\ UNCHANGED clock
       ELSE consumer' = "get" /\ \E d \in delays : clock' = clock + d
    /\ UNCHANGED <<current_chunk, a1_events, orch_events, last_event_type, chunks,
                   last_sent_time>>
    /\ UNCHANGED <<output_queue, streaming_done, thread>>
    /\ UNCHANGED ctl_vars /\ UNCHANGED cfg_vars

\* mutant: the stream closes without a done event
ConsumerFinalSilent ==
    /\ consumer = "final"
    /\ \E c \in {check_pending_events(pending_tool_calls, orchestrator_pending,
                                      clock, last_sent_time)} :
          /\ events' = events \o c.out
          /\ sent' = sent \o c.out
          /\ pending_tool_calls' = c.pending
          /\ orchestrator_pending' = c.orchestrator_pending
    /\ polls' = polls + 1
    /\ consumer' = "closed"
    /\ UNCHANGED <<current_chunk, a1_events, orch_events, last_event_type, chunks,
                   last_sent_time, clock>>
    /\ UNCHANGED <<output_queue, streaming_done, thread>>
    /\ UNCHANGED ctl_vars /\ UNCHANGED cfg_vars

\* v4:941-950: the final check_pending_events, then the done event closes
\* the stream
ConsumerFinal ==
    /\ consumer = "final"
    /\ \E c \in {check_pending_events(pending_tool_calls, orchestrator_pending,
                                      clock, last_sent_time)} :
          /\ events' = Append(events \o c.out, Event("done", <<>>))
          /\ sent' = sent \o c.out
          /\ pending_tool_calls' = c.pending
          /\ orchestrator_pending' = c.orchestrator_pending
    /\ polls' = polls + 1
    /\ consumer' = "closed"
    /\ UNCHANGED <<current_chunk, a1_events, orch_events, last_event_type, chunks,
                   last_sent_time, clock>>
    /\ UNCHANGED <<output_queue, streaming_done, thread>>
    /\ UNCHANGED ctl_vars /\ UNCHANGED cfg_vars

\* A1._classify_message_multi on one message of inputs
ClassifyMessage(inputs) ==
    /\ chunks = 0
    /\ \E content \in inputs :
         /\ current_chunk' = Classified("a1", content)
         /\ a1_events' = classify_message_multi(content)
    /\ chunks' = chunks + 1
    /\ UNCHANGED <<orch_events, clock, orchestrator_pending, pending_tool_calls,
                   last_event_type, sent, last_sent_time, polls>>
    /\ UNCHANGED <<ctl_vars, cfg_vars, srv_vars>>

\* A1.go_stream_detailed with stream_mode "values" (a1.py:1904-1922): the
\* last message of every state of the run is classified
DetailedStep(step) ==
    /\ step
    /\ IF node' = "raised"
       THEN UNCHANGED <<current_chunk, a1_events>>
       ELSE /\ current_chunk' = Classified("a1", messages'[Len(messages')].content)
            /\ a1_events' = classify_message_multi(messages'[Len(messages')].content)
    /\ UNCHANGED <<orch_events, clock, orchestrator_pending, pending_tool_calls,
                   last_event_type, sent, chunks, last_sent_time, polls>>
    /\ UNCHANGED srv_vars

----------------------------------------------------------------------------
(* BiomniAgentPool and AuthenticationManager (server.py) *)

\* server.py:435: self.max_sessions = 10
max_sessions == 10

\* server.py:49: MAX_SESSIONS_PER_USER, by default
max_sessions_per_user == 10

Users == {"researcher1", "guest"}

NoCall ==
    [issued |-> 0, returning |-> 0, recency |-> <<>>, session |-> 0, agent |-> 0,
     evicted |-> 0, allowed |-> TRUE]

\* the sessions of the pool, oldest entry first
Resident(agents) == {agents[i].session : i \in 1..Len(agents)}

\* session_agents[sid]
AgentOf(agents, sid) ==
    agents[CHOOSE i \in 1..Len(agents) : agents[i].session = sid].agent

\* mutant: the pool is never full
get_agent_unbounded(agents, memories, sid, new) ==
    IF sid \in Resident(agents)
    THEN [agents |-> agents, memories |-> memories,
          agent |-> AgentOf(agents, sid), evicted |-> 0]
    ELSE [agents |-> Append(agents, [session |-> sid, agent |-> new]),
          memories |-> memories \cup {sid}, agent |-> new, evicted |-> 0]

\* mutant: the memory of the evicted session is kept
get_agent_keeps_memory(agents, memories, sid, new) ==
    IF sid \in Resident(agents)
    THEN [agents |-> agents, memories |-> memories,
          agent |-> AgentOf(agents, sid), evicted |-> 0]
    ELSE LET full == Len(agents) >= max_sessions
             kept == IF full THEN Tail(agents) ELSE agents
         IN  [agents |-> Append(kept, [session |-> sid, agent |-> new]),
              memories |-> memories \cup {sid},
              agent |-> new,
              evicted |-> IF full THEN Head(agents).session ELSE 0]

\* BiomniAgentPool.get_agent (server.py:438-482) for session sid, new being
\* the agent it creates if it creates one: the tables afterwards, the agent
\* returned and the session removed (0 for none)
get_agent(agents, memories, sid, new) ==
    IF sid \in Resident(agents)
    THEN [agents |-> agents, memories |-> memories,
          agent |-> AgentOf(agents, sid), evicted |-> 0]
    ELSE LET full == Len(agents) >= max_sessions
             kept == IF full THEN Tail(agents) ELSE agents
             left == IF full THEN memories \ {Head(agents).session} ELSE memories
         IN  [agents |-> Append(kept, [session |-> sid, agent |-> new]),
              memories |-> left \cup {sid},
              agent |-> new,
              evicted |-> IF full THEN Head(agents).session ELSE 0]

\* s without x, then x
MoveToEnd(s, x) == Keep(s, {i \in 1..Len(s) : s[i] # x}) \o <<x>>

\* a request of a session: a new session id (ids are issued in order), or,
\* at most returning_cap times in a run, an id issued before
GetAgent(new_cap, returning_cap) ==
    /\ \E sid \in 1..(served.issued + 1) :
          /\ IF sid > served.issued THEN served.issued < new_cap
                                    ELSE served.returning < returning_cap
          /\ \E g \in {get_agent(session_agents, session_memories, sid,
                                  served.issued + served.returning + 1)} :
                /\ session_agents' = g.agents
                /\ session_memories' = g.memories
                /\ served' = [served EXCEPT
                                 !.issued = IF sid > @ THEN sid ELSE @,
                                 !.returning = IF sid > served.issued THEN @ ELSE @ + 1,
                                 !.recency = MoveToEnd(@, sid),
                                 !.session = sid,
                                 !.agent = g.agent,
                                 !.evicted = g.evicted]
    /\ UNCHANGED user_sessions
    /\ UNCHANGED <<self_critic, test_time_scale_round, llm, executor>>
    /\ UNCHANGED <<ctl_vars, srv_vars, evt_vars>>

\* mutant: a full set takes the new session without removing one
check_session_limit_adds(sessions, sid, oldest) ==
    [sessions |-> sessions \cup {sid}, result |-> TRUE,
     evicted |-> 0]

\* AuthenticationManager.check_session_limit (server.py:155-173) on the set
\* of one user, oldest being next(iter(...)) of the set: the set afterwards,
\* the value returned and the session removed (0 for none)
check_session_limit(sessions, sid, oldest) ==
    IF sid \in sessions
    THEN [sessions |-> sessions, result |-> TRUE, evicted |-> 0]
    ELSE IF Cardinality(sessions) >= max_sessions_per_user
    THEN [sessions |-> (sessions \ {oldest}) \cup {sid}, result |-> TRUE,
          evicted |-> oldest]
    ELSE [sessions |-> sessions \cup {sid}, result |-> TRUE, evicted |-> 0]

\* server.py:603-605: a request of user u for a new session or for one of
\* the user's sessions; the iteration order of a Python set of strings is
\* any order
CheckSessionLimit(new_cap) ==
    /\ \E u \in Users :
       \E sid \in user_sessions[u] \cup {served.issued + 1} :
       \E oldest \in IF user_sessions[u] = {} THEN {0} ELSE user_sessions[u] :
       \E c \in {check_session_limit(user_sessions[u], sid, oldest)} :
          /\ sid > served.issued => served.issued < new_cap
          /\ user_sessions' = [user_sessions EXCEPT ![u] = c.sessions]
          /\ served' = [served EXCEPT
                           !.issued = IF sid > @ THEN sid ELSE @,
                           !.evicted = c.evicted,
                           !.allowed = c.result]
    /\ UNCHANGED <<session_agents, session_memories>>
    /\ UNCHANGED <<self_critic, test_time_scale_round, llm, executor>>
    /\ UNCHANGED <<ctl_vars, srv_vars, evt_vars>>

----------------------------------------------------------------------------
(* Specifications *)

Configs ==
    {<<FALSE, 0>>} \cup {<<TRUE, n>> : n \in 0..MaxRounds}

InitCtl ==
    /\ messages = <<>>
    /\ next_step = "none"
    /\ node = "idle"
    /\ steps = 0
    /\ critic_count = 0
    /\ user_task = <<>>
    /\ log = <<>>
    /\ other_session = "none"
    /\ last = NoStep
    /\ tagless_run = 0
    /\ executor_calls = 0

InitSrv ==
    /\ output_queue = <<>>
    /\ streaming_done = FALSE
    /\ thread = "none"
    /\ consumer = "idle"
    /\ events = <<>>
    /\ session_agents = <<>>
    /\ session_memories = {}
    /\ user_sessions = [u \in Users |-> {}]
    /\ served = NoCall

\* SmartEventProcessor() and its EventOrchestrator (orchestrator.py:30-35,
\* 373-378)
InitEvt ==
    /\ current_chunk = [by |-> "none", text |-> <<>>]
    /\ a1_events = <<>>
    /\ orch_events = <<>>
    /\ clock = 1
    /\ orchestrator_pending = {}
    /\ pending_tool_calls = <<>>
    /\ last_event_type = "None"
    /\ sent = <<>>
    /\ chunks = 0
    /\ last_sent_time = 1
    /\ polls = 0

InitConfig ==
    \E c \in Configs : self_critic = c[1] /\ test_time_scale_round = c[2]

\* A1.go: a session of an agent in every configuration
Init ==
    /\ InitCtl /\ InitSrv /\ InitEvt /\ InitConfig
    /\ llm = SessionModel
    /\ executor = Results

Next ==
    \/ Go /\ UNCHANGED <<srv_vars, evt_vars>>
    \/ GenerateStep(MaxSteps) /\ UNCHANGED <<srv_vars, evt_vars>>
    \/ ExecuteStep(MaxSteps) /\ UNCHANGED <<srv_vars, evt_vars>>
    \/ SelfCriticStep(MaxSteps) /\ UNCHANGED <<srv_vars, evt_vars>>

Spec == Init /\ [][Next]_vars

\* A1.go on every short first reply: the parser
InitParse ==
    /\ InitCtl /\ InitSrv /\ InitEvt
    /\ self_critic = FALSE /\ test_time_scale_round = 0
    /\ llm = ParserModel
    /\ executor = {<<Txt(1)>>}

NextParse ==
    \/ Go /\ UNCHANGED <<srv_vars, evt_vars>>
    \/ GenerateStep(1) /\ UNCHANGED <<srv_vars, evt_vars>>
    \/ ExecuteStep(2) /\ UNCHANGED <<srv_vars, evt_vars>>

SpecParse == InitParse /\ [][NextParse]_vars

\* A1.go against a model that never lets the session finish
InitTerm ==
    /\ InitCtl /\ InitSrv /\ InitEvt
    /\ \E a \in Adversaries :
          /\ llm = a[1] /\ executor = a[2] /\ self_critic = a[3]
          /\ test_time_scale_round = IF a[3] THEN MaxRounds ELSE 0

NextTerm ==
    \/ Go /\ UNCHANGED <<srv_vars, evt_vars>>
    \/ GenerateStep(TermSteps) /\ UNCHANGED <<srv_vars, evt_vars>>
    \/ ExecuteStep(TermSteps) /\ UNCHANGED <<srv_vars, evt_vars>>
    \/ SelfCriticStep(TermSteps) /\ UNCHANGED <<srv_vars, evt_vars>>
    \/ RecursionError /\ UNCHANGED <<srv_vars, evt_vars>>

SpecTerm == InitTerm /\ [][NextTerm]_vars

\* stream_a1_events_v4: the agent thread and the consumer loop
InitStream ==
    /\ InitCtl /\ InitSrv /\ InitEvt /\ InitConfig
    /\ llm = FixedModel(Outcomes({ExecuteReply, SolutionReply}))
    /\ executor = Results

NextStream ==
    \/ ServerStart /\ UNCHANGED evt_vars
    \/ ThreadStep(Go) /\ UNCHANGED evt_vars
    \/ ThreadStep(GenerateStep(StreamSteps)) /\ UNCHANGED evt_vars
    \/ ThreadStep(ExecuteStep(StreamSteps)) /\ UNCHANGED evt_vars
    \/ ThreadStep(SelfCriticStep(StreamSteps)) /\ UNCHANGED evt_vars
    \/ ThreadDone /\ UNCHANGED evt_vars
    \/ ThreadError /\ UNCHANGED evt_vars
    \/ ThreadFinally /\ UNCHANGED evt_vars
    \/ ConsumerGet
    \/ ConsumerEmpty(MaxPolls)
    \/ ConsumerCheck(Delays)
    \/ ConsumerFinal
    \/ AgentUnavailable /\ UNCHANGED evt_vars

SpecStream == InitStream /\ [][NextStream]_vars

\* two sessions at the same time on the agent of the server
NextSessions ==
    \/ Go /\ UNCHANGED <<srv_vars, evt_vars>>
    \/ GenerateStep(StreamSteps) /\ UNCHANGED <<srv_vars, evt_vars>>
    \/ ExecuteStep(StreamSteps) /\ UNCHANGED <<srv_vars, evt_vars>>
    \/ SelfCriticStep(StreamSteps) /\ UNCHANGED <<srv_vars, evt_vars>>
    \/ OtherGoStream /\ UNCHANGED <<srv_vars, evt_vars>>
    \/ OtherStep(StreamSteps) /\ UNCHANGED <<srv_vars, evt_vars>>
    \/ OtherSelfCritic /\ UNCHANGED <<srv_vars, evt_vars>>

SpecSessions == InitStream /\ [][NextSessions]_vars

\* stream_a1_events_v4 with a consumer loop that the event loop keeps
\* scheduling: every step of the loop that can be taken is taken; nothing is
\* assumed about the agent thread, which may hang in a model call
NextLive ==
    \/ ServerStart /\ UNCHANGED evt_vars
    \/ ThreadStep(Go) /\ UNCHANGED evt_vars
    \/ ThreadStep(GenerateStep(StreamSteps)) /\ UNCHANGED evt_vars
    \/ ThreadStep(ExecuteStep(StreamSteps)) /\ UNCHANGED evt_vars
    \/ ThreadDone /\ UNCHANGED evt_vars
    \/ ThreadError /\ UNCHANGED evt_vars
    \/ ThreadFinally /\ UNCHANGED evt_vars
    \/ ConsumerGet
    \/ ConsumerEmpty(MaxPolls)
    \/ ConsumerCheck({POLL_MS})
    \/ ConsumerFinal
    \/ AgentUnavailable /\ UNCHANGED evt_vars

InitLive ==
    /\ InitCtl /\ InitSrv /\ InitEvt
    /\ self_critic = FALSE /\ test_time_scale_round = 0
    /\ llm = FixedModel(Outcomes({ExecuteReply, SolutionReply}))
    /\ executor = {<<Txt(1)>>}

\* a step of the consumer loop (ConsumerGet, ConsumerEmpty, ConsumerCheck or
\* ConsumerFinal), by what it does to the position of the loop
ConsumerMoves ==
    /\ \/ consumer = "get" /\ (output_queue # <<>> \/ polls < MaxPolls)
       \/ consumer \in {"check", "final"}
    /\ consumer' \in {"get", "check", "final", "closed"} \ {consumer}

SpecStreamFair ==
    /\ InitLive /\ [][NextLive]_vars
    /\ WF_consumer(ConsumerMoves)

\* stream_a1_events_v4_old (biomni_a1_advanced_server_v4.py:691-865): the
\* agent thread run_agent_streaming and the consumer loop on event_queue
\* (output_queue here). The positions of the thread after its loop are
\* "returning" (done was put), "error_set" (error_occurred is set, the error
\* is not put yet), "error_put", and "dead", "dead_error" once it returned.

\* v4:744: error_occurred.is_set()
error_occurred == thread \in {"error_set", "error_put", "dead_error"}

\* v4:835: thread.is_alive()
is_alive == thread \in {"running", "returning", "error_set", "error_put"}

\* v4:781-831: the events parse_agent_output_enhanced gives for a chunk (one
\* event, or the events of a mixed_content result), as one record that
\* carries the chunk
ParsedChunk(text) == Event("parsed", text)

\* v4:738-746: the end of run_agent_streaming, one statement at a time
RunAgentStreamingEnd ==
    /\ \/ /\ thread = "running" /\ node = "END"
          /\ output_queue' = Append(output_queue, DoneItem)
          /\ thread' = "returning"
       \/ /\ thread = "running" /\ node = "raised"
          /\ thread' = "error_set"
          /\ UNCHANGED output_queue
       \/ /\ thread = "error_set"
          /\ output_queue' = Append(output_queue, ErrorItem(last.error))
          /\ thread' = "error_put"
       \/ /\ thread = "returning" /\ thread' = "dead"
          /\ UNCHANGED output_queue
       \/ /\ thread = "error_put" /\ thread' = "dead_error"
          /\ UNCHANGED output_queue
    /\ UNCHANGED <<streaming_done, consumer, events>>
    /\ UNCHANGED ctl_vars /\ UNCHANGED cfg_vars

\* v4:758-831: event_queue.get(timeout=1.0) returned an item
OldConsumerGet ==
    /\ consumer = "get" /\ output_queue # <<>>
    /\ output_queue' = Tail(output_queue)
    /\ \E item \in {Head(output_queue)} :
          CASE item.kind = "done" ->
                 /\ events' = Append(events, Event("done", <<>>))
                 /\ consumer' = "closed"
            [] item.kind = "error" ->
                 /\ events' = Append(events, Event("error", item.text))
                 /\ consumer' = "closed"
            [] item.kind = "content" ->
                 /\ events' = Append(events, ParsedChunk(item.text))
                 /\ consumer' = "get"
    /\ UNCHANGED <<streaming_done, thread>>
    /\ UNCHANGED ctl_vars /\ UNCHANGED cfg_vars

\* v4:833: the queue stayed empty for the second of the timeout and get
\* raised queue.Empty
OldConsumerEmpty ==
    /\ consumer = "get" /\ output_queue = <<>>
    /\ consumer' = "empty"
    /\ UNCHANGED <<output_queue, streaming_done, thread, events>>
    /\ UNCHANGED ctl_vars /\ UNCHANGED cfg_vars

\* v4:834-844: the liveness check of the thread in the handler of queue.Empty
OldConsumerAlive ==
    /\ consumer = "empty"
    /\ IF ~is_alive
       THEN /\ events' = IF error_occurred THEN events
                         ELSE Append(events, Event("done", <<>>))
            /\ consumer' = "closed"
       ELSE /\ consumer' = "get"
            /\ UNCHANGED events
    /\ UNCHANGED <<output_queue, streaming_done, thread>>
    /\ UNCHANGED ctl_vars /\ UNCHANGED cfg_vars

NextOld ==
    \/ ServerStart /\ UNCHANGED evt_vars
    \/ ThreadStep(Go) /\ UNCHANGED evt_vars
    \/ ThreadStep(GenerateStep(StreamSteps)) /\ UNCHANGED evt_vars
    \/ ThreadStep(ExecuteStep(StreamSteps)) /\ UNCHANGED evt_vars
    \/ RunAgentStreamingEnd /\ UNCHANGED evt_vars
    \/ OldConsumerGet /\ UNCHANGED evt_vars
    \/ OldConsumerEmpty /\ UNCHANGED evt_vars
    \/ OldConsumerAlive /\ UNCHANGED evt_vars

SpecOld == InitLive /\ [][NextOld]_vars

\* A1.go_stream_detailed on one code block and one execution result: the
\* execute node and the events of its observation
InitExec ==
    /\ InitCtl /\ InitSrv /\ InitEvt
    /\ self_critic = FALSE /\ test_time_scale_round = 0
    /\ llm = FixedModel({Ok(r) : r \in CodeReplies})
    /\ executor = ExecResults

NextExec ==
    \/ DetailedStep(Go)
    \/ DetailedStep(GenerateStep(1))
    \/ DetailedStep(ExecuteStep(2))

SpecExec == InitExec /\ [][NextExec]_vars

\* the two classifiers on one text
InitClassify ==
    /\ InitCtl /\ InitSrv /\ InitEvt
    /\ self_critic = FALSE /\ test_time_scale_round = 0
    /\ llm = FixedModel({})
    /\ executor = {}

NextClassify ==
    \/ ClassifyMessage(ClassifierInputs)
    \/ ProcessAgentOutput(ClassifierInputs, 1)

SpecClassify == InitClassify /\ [][NextClassify]_vars

\* BiomniAgentPool under the requests of sessions
NextPool == GetAgent(MaxNewSessions, MaxReturning)

SpecPool == InitClassify /\ [][NextPool]_vars

\* AuthenticationManager under the requests of users
NextAuth == CheckSessionLimit(MaxNewSessions)

SpecAuth == InitClassify /\ [][NextAuth]_vars

\* SmartEventProcessor on a stream of chunks
NextOrch == ProcessAgentOutput(StreamChunks, MaxChunks)

SpecOrch == InitClassify /\ [][NextOrch]_vars

\* chunks of normal-priority and of high-priority events
PriorityChunks ==
    { <<Tok("approach"), Txt(10)>>,
      <<EO, Txt(10), EC>>,
      <<OO, Txt(10), OC>>,
      <<Txt(20)>>,
      <<Nl, Tok("1. "), Tok("[ ]"), Txt(8), Nl>>,
      <<Tok("approach"), Txt(10), EO, Txt(10), EC, Tok("approach"), Txt(10)>> }

\* SmartEventProcessor on chunks of both priorities
NextDedup == ProcessAgentOutput(PriorityChunks, MaxChunks)

SpecDedup == InitClassify /\ [][NextDedup]_vars

\* SmartEventProcessor on a stream of chunks, polled by its caller
NextPending ==
    \/ ProcessAgentOutput(StreamChunks, MaxChunks)
    \/ CheckPendingEvents(MaxPolls)

SpecPending == InitClassify /\ [][NextPending]_vars

----------------------------------------------------------------------------
(* Claims *)

AfterGenerate == last.node = "generate" /\ ~last.raised
LastMessage == messages[Len(messages)]

\* C1: after exactly two consecutive replies without any tag the controller
\* sets next_step to end and appends the termination message; after the first
\* it appends the corrective instruction and stays in generate.
C1_TwoTaglessRepliesEnd ==
    /\ (AfterGenerate /\ tagless_run = 1) =>
           next_step = "generate" /\ LastMessage = CorrectiveMessage
    /\ (AfterGenerate /\ tagless_run = 2) =>
           next_step = "end" /\ LastMessage = TerminationMessage

\* C2: a session takes at most recursion_limit (500) graph steps, and at the
\* limit no node, hence no model call, can run any more.
C2_StepBound ==
    /\ steps <= recursion_limit
    /\ steps = recursion_limit =>
           ~ENABLED (GenerateStep(TermSteps) \/ ExecuteStep(TermSteps)
                         \/ SelfCriticStep(TermSteps))

\* C2 witness: a session was stopped at the limit
C2_LimitReached ==
    steps = recursion_limit /\ node = "raised" /\ last.node = "recursion_limit"

\* some open tag of the reply has no close tag after it
OpenWithoutClose(r, open, close) ==
    \E i \in 1..Len(r) :
        r[i][1] = open /\ \A j \in (i + 1)..Len(r) : r[j][1] # close

TagPairs == {<<"<execute>", "</execute>">>, <<"<solution>", "</solution>">>}

\* C3: for a reply with an <execute> or <solution> tag left open, generate
\* appends the same messages and chooses the same next_step as for that reply
\* with the matching closing tag appended at its end.
C3_ForgivingParse ==
    (AfterGenerate /\ steps = 1) =>
        \A p \in TagPairs :
            OpenWithoutClose(last.reply, p[1], p[2]) =>
                LET closed == ParseReply(<<messages[1]>>,
                                         Append(last.reply, Tok(p[2])))
                IN  messages = closed.messages /\ next_step = closed.next_step

BothBlocks(r) ==
    Matches(r, "<execute>", "</execute>") /\ Matches(r, "<solution>", "</solution>")

\* C4 (as stated): a reply with both an execute block and a solution block
\* sends the session to execute.
C4_ExecutePreferred ==
    (AfterGenerate /\ BothBlocks(last.reply)) => next_step = "execute"

\* C4 (amended): a reply with both an execute block and a solution block is
\* taken as a solution: next_step is end and the execute node is not entered.
C4_SolutionPreferred ==
    (AfterGenerate /\ BothBlocks(last.reply)) =>
        next_step = "end" /\ node # "execute" /\ executor_calls = 0

\* C4 witness: generate has handled a reply with both blocks
C4_BothBlocksSeen == AfterGenerate /\ BothBlocks(last.reply)

\* a synthesized error reply is in the session
Synthesized ==
    \E i \in 1..Len(messages) :
        /\ messages[i].role = "ai"
        /\ messages[i].content \in {AuthErrorReply, ContextErrorReply}

\* C5: generate calls the model at most twice (one retry), and a session in
\* which the retry failed and the error reply was synthesized never ends in
\* an unhandled exception.
C5_SynthesizedThenNoException ==
    /\ last.calls <= 2
    /\ Synthesized => node # "raised"

MatchesNoPattern(text) == \A p \in RecoverablePatterns : ~ErrContains(text, p)

\* C6: a model-call failure that matches no recoverable pattern leaves
\* generate at once: one call, no retry, no truncation, no message appended;
\* the stream that has closed has delivered it as an error event.
C6_FatalErrorDelivered ==
    (last.node = "generate" /\ last.error # <<>> /\ MatchesNoPattern(last.error)) =>
        /\ last.raised /\ node = "raised"
        /\ last.calls = 1 /\ last.truncated = 0 /\ last.appended = 0
        /\ thread = "exited" => streaming_done
        /\ consumer = "closed" =>
               \E i \in 1..Len(events) : events[i] = Event("error", last.error)

\* C6 witness: the fatal error of generate has reached the caller
C6_ErrorEventSeen ==
    /\ last.node = "generate" /\ last.raised /\ consumer = "closed"
    /\ \E i \in 1..Len(events) : events[i] = Event("error", last.error)

ObservationBearing(msgs) ==
    {i \in 1..Len(msgs) :
        msgs[i].role = "ai" /\ Contains(msgs[i].content, "<observation>")}

ObservationOf(m) == Group1(m.content, "<observation>", "</observation>")

LongObservation(msgs) ==
    {i \in ObservationBearing(msgs) :
        /\ Matches(msgs[i].content, "<observation>", "</observation>")
        /\ StrLen(ObservationOf(msgs[i])) > 2000}

\* the step is a generate step that retried the model call
RetryStep == node = "generate" /\ last'.node = "generate" /\ last'.calls = 2

\* new is old with its observation cut to 2000 characters behind a marker
\* that states the original length
CutTo2000(old, new) ==
    /\ new.role = "ai"
    /\ Len(new.content) >= 6
    /\ new.content[1] = Tok("<observation>")
    /\ new.content[2] = <<"[TRUNCATED DUE TO CONTEXT OVERFLOW - Original: N chars]",
                          StrLen(ObservationOf(old))>>
    /\ new.content[Len(new.content)] = Tok("</observation>")
    /\ new.content[Len(new.content) - 1] = Tok("[...truncated...]")
    /\ StrLen(SubSeq(new.content, 4, Len(new.content) - 3)) = 2000

C8_AppendOnly ==
    [][node # "idle" =>
           /\ Len(messages') >= Len(messages)
           /\ \A i \in 1..Len(messages) : messages'[i] = messages[i]]_vars

IsCritique(m) ==
    /\ m.role = "human"
    /\ Head(m.content) = Tok("Wait... this is not enough to solve the task.")

Critiques(msgs) == {i \in 1..Len(msgs) : IsCritique(msgs[i])}

\* the next_step the message list determines after generate
RouteOfList(msgs) ==
    LET m == msgs[Len(msgs)]
    IN  IF m = CorrectiveMessage THEN "generate"
        ELSE IF m = TerminationMessage THEN "end"
        ELSE Route(m.content)

\* C8 (amended): no message is removed or reordered and the list only grows;
\* a message changes only when generate recovers from a recoverable failure,
\* which rewrites the one message it truncates.  The routing is determined by
\* the list: next_step after generate by its last message, the round counter
\* by the number of critique messages.
C8_AppendOnlyExceptTruncation ==
    [][node # "idle" =>
           /\ Len(messages') >= Len(messages)
           /\ \A i \in 1..Len(messages) :
                  \/ messages'[i] = messages[i]
                  \/ /\ RetryStep /\ i = last'.truncated
                     /\ CutTo2000(messages[i], messages'[i])
           /\ (last'.node = "generate" /\ ~last'.raised) =>
                  next_step' = RouteOfList(messages')
           /\ critic_count' = Cardinality(Critiques(messages'))]_vars

\* C8 witness: a recovery has rewritten a message of the session
C8_MessageRewritten ==
    last.node = "generate" /\ last.truncated # 0 /\ last.truncated < Len(messages)

\* mid is the text between the observation tags of message m
Wraps(m, mid) ==
    /\ m.role = "ai"
    /\ m.content = <<Tok("<observation>")>> \o mid \o <<Tok("</observation>")>>

\* C9: an execute step appends exactly one observation-wrapped message that
\* holds the result and hands over to generate; the execute node is entered
\* only right after a generate step whose reply had an execute block.
C9_ExecuteStep ==
    /\ last.node = "execute" =>
           /\ node = "generate"
           /\ last.appended = 1
           /\ executor_calls >= 1
           /\ StrLen(last.result) <= SUMMARY_THRESHOLD =>
                  Wraps(LastMessage, last.result)
    /\ node = "execute" =>
           /\ AfterGenerate
           /\ next_step = "execute"
           /\ Contains(last.reply, "<execute>")
           /\ \/ Matches(last.reply, "<execute>", "</execute>")
              \/ ~Contains(last.reply, "</execute>")

\* C9 witness: an execute step has appended its observation
C9_ObservationAppended ==
    last.node = "execute" /\ Wraps(LastMessage, last.result)

\* C10: the round counter never exceeds the budget and equals the number of
\* critique messages; a critique round appends one critique and returns to
\* generate; with the budget used up self_critic ends the session without a
\* model call.
C10_CriticBudget ==
    /\ critic_count <= test_time_scale_round
    /\ Cardinality(Critiques(messages)) = critic_count
    /\ (last.node = "self_critic" /\ ~last.raised) =>
           IF last.calls = 1
           THEN /\ node = "generate" /\ next_step = "generate"
                /\ last.appended = 1 /\ IsCritique(LastMessage)
           ELSE /\ last.calls = 0 /\ last.appended = 0
                /\ critic_count = test_time_scale_round
                /\ node = "END" /\ next_step = "end"

\* C10 witness: the budget was used up and self_critic ended the session
C10_BudgetUsedUp ==
    /\ last.node = "self_critic" /\ last.calls = 0 /\ node = "END"
    /\ critic_count = test_time_scale_round /\ critic_count > 0

\* C11: END is terminal: there no node can run, so no model call and no
\* execution follows; without self-critique a generate step that set
\* next_step to end (solution found, or end forced on parse errors) is the
\* last step of the session.
C11_EndTerminal ==
    /\ node = "END" =>
           /\ next_step = "end"
           /\ ~ENABLED (GenerateStep(TermSteps) \/ ExecuteStep(TermSteps)
                            \/ SelfCriticStep(TermSteps) \/ Go)
    /\ (~self_critic /\ AfterGenerate /\ next_step = "end") => node = "END"
    /\ (~self_critic /\ node = "END") =>
           /\ AfterGenerate
           /\ \/ Matches(FixTags(last.reply), "<solution>", "</solution>")
              \/ LastMessage = TerminationMessage

\* C11 witness: a session without self-critique has ended on repeated parse
\* errors before the bound on steps
C11_EndedEarly ==
    /\ node = "END" /\ ~self_critic /\ steps < MaxSteps
    /\ LastMessage = TerminationMessage

\* the text between the observation tags of the last message
ObservationBody == SubSeq(LastMessage.content, 2, Len(LastMessage.content) - 1)

\* s ends with t
EndsWith(s, t) ==
    Len(t) <= Len(s) /\ SubSeq(s, Len(s) - Len(t) + 1, Len(s)) = t

AfterExecute == last.node = "execute" /\ last.appended = 1

\* C12: for a result longer than 10000 characters the observation is a header
\* that reports the true length of the result, followed by exactly the first
\* 10000 characters of the result; a result of at most 10000 characters is
\* in the observation in full.
C12_HardCeiling ==
    AfterExecute =>
        /\ LastMessage.content[1] = OO
        /\ LastMessage.content[Len(LastMessage.content)] = OC
        /\ IF StrLen(last.result) > MAX_OUTPUT_LENGTH
           THEN /\ ObservationBody[1] =
                       <<"[OUTPUT TRUNCATED: N total characters]", StrLen(last.result)>>
                /\ EndsWith(ObservationBody, Take(last.result, MAX_OUTPUT_LENGTH))
                /\ StrLen(Take(last.result, MAX_OUTPUT_LENGTH)) = MAX_OUTPUT_LENGTH
                /\ ~EndsWith(ObservationBody, last.result)
                /\ StrLen(ObservationBody) > MAX_OUTPUT_LENGTH
           ELSE EndsWith(ObservationBody, last.result)

\* C12 witness: a result of 12000 characters was cut and reported as 12000
C12_TwelveThousand ==
    /\ AfterExecute /\ StrLen(last.result) = 12000
    /\ ObservationBody[1] = <<"[OUTPUT TRUNCATED: N total characters]", 12000>>

\* C13: a result of more than 5000 and at most 10000 characters is in the
\* observation in full behind a prefix stating its length; a result of at
\* most 5000 characters is the observation body, unchanged.
C13_LengthPrefix ==
    AfterExecute =>
        /\ (StrLen(last.result) > SUMMARY_THRESHOLD
              /\ StrLen(last.result) <= MAX_OUTPUT_LENGTH) =>
               ObservationBody =
                   <<<<"[Output length: N characters]", StrLen(last.result)>>, Nl>>
                   \o last.result
        /\ StrLen(last.result) <= SUMMARY_THRESHOLD =>
               ObservationBody = last.result

\* C13 witness: results at both thresholds went through execute
C13_AtThresholds ==
    /\ AfterExecute
    /\ StrLen(last.result) \in {SUMMARY_THRESHOLD + 1, MAX_OUTPUT_LENGTH}
    /\ ObservationBody[1][1] = "[Output length: N characters]"

\* the code block execute ran
ExecutedCode == LastCode(SubSeq(messages, 1, Len(messages) - 1)).code

\* the lane the marker at the start of the code, after leading whitespace, names
LaneOfMarker(code) ==
    IF StartsWith(Strip(code), R_MARKERS) THEN "r"
    ELSE IF StartsWith(Strip(code), BASH_MARKERS \cup CLI_MARKERS) THEN "bash"
    ELSE "python"

\* C14: the lane is the one the marker at the start of the code names (Python
\* without a marker), one lane is invoked per execute step, and the source
\* handed to the R or shell lane no longer starts with the marker.
C14_LaneByMarker ==
    AfterExecute =>
        /\ last.lane = LaneOfMarker(ExecutedCode)
        /\ executor_calls = 1
        /\ last.lane \in {"r", "bash"} => ~StartsWith(last.source, AllMarkers)

ClassifiedByA1 == current_chunk.by = "a1" /\ Strip(current_chunk.text) # <<>>
ClassifiedByOrchestrator ==
    current_chunk.by = "orchestrator" /\ Strip(current_chunk.text) # <<>>

TagTokens ==
    {"<execute>", "</execute>", "<solution>", "</solution>", "<think>", "</think>",
     "<observation>", "</observation>", "<observe>", "</observe>"}

\* text that no rule of a classifier is about: no tag, no checklist box, no
\* header of a printed message, no reasoning word
Unmarked(text) ==
    \A i \in 1..Len(text) :
        text[i][1] \notin TagTokens \cup Boxes \cup PlanWords \cup ReasoningWords
                          \cup {AI_HEADER, "Ai Message", "Human Message",
                                "final protocol:"}

\* C15: both classifiers return at least one event for every text that is
\* not blank, and text that no rule is about comes back verbatim as one
\* reasoning event.
C15_NeverDrops ==
    /\ ClassifiedByA1 =>
           /\ a1_events # <<>>
           /\ Unmarked(current_chunk.text) =>
                  /\ Len(a1_events) = 1
                  /\ a1_events[1].type = "reasoning"
                  /\ a1_events[1].content \in
                         {current_chunk.text, Strip(current_chunk.text)}
    /\ ClassifiedByOrchestrator =>
           /\ orch_events # <<>>
           /\ Unmarked(current_chunk.text) =>
                  /\ Len(orch_events) = 1
                  /\ orch_events[1].type = "reasoning"
                  /\ orch_events[1].content \in
                         {current_chunk.text, Strip(current_chunk.text)}

\* the events are in the order in which their spans start in the text
InTextOrder(es) == \A i, j \in 1..Len(es) : i < j => es[i].pos <= es[j].pos

\* C16: the events either classifier returns for one text are in the order
\* in which their spans start in the text.
C16_TextualOrder ==
    /\ ClassifiedByA1 => InTextOrder(a1_events)
    /\ ClassifiedByOrchestrator => InTextOrder(orch_events)

ChecklistSegments ==
    { <<Nl, Tok("1. "), Tok("[ ]"), Txt(8), Nl>>,
      <<Nl, Tok("- "), Tok("[ ]"), Txt(8), Nl>>,
      <<Nl, Tok("1. "), Tok("[U+2713]"), Txt(8), Nl>>,
      <<Nl, Tok("1. "), Tok("[U+201A U+00FA U+00EC]"), Txt(8), Nl>> }

\* reasoning text, then checklist lines, then an execute block
PlanThenCode(text) ==
    \E r \in {<<Txt(60)>>, <<Txt(10)>>, <<Tok("approach"), Txt(10)>>} :
        \E c \in ChecklistSegments : text = r \o c \o <<EO, Txt(10), EC>>

PlanningBeforeToolCall(es) ==
    \E i, j \in 1..Len(es) :
        i < j /\ es[i].type = "planning" /\ es[j].type = "tool_call"

\* C17: for reasoning text, then checklist lines, then an execute block,
\* either classifier returns a planning event and, after it, a tool_call
\* event.
C17_PlanningBeforeToolCall ==
    /\ (ClassifiedByA1 /\ PlanThenCode(current_chunk.text)) =>
           PlanningBeforeToolCall(a1_events)
    /\ (ClassifiedByOrchestrator /\ PlanThenCode(current_chunk.text)) =>
           PlanningBeforeToolCall(orch_events)

\* the text is one solution block and nothing else
OnlySolution(text) ==
    /\ Len(text) >= 2
    /\ Head(text) = SO /\ text[Len(text)] = SC
    /\ \A i \in 2..(Len(text) - 1) : text[i][1] \notin TagTokens

\* the type of the event made from a solution block: final_answer in the
\* orchestrator, final_result in A1
FinalTypes == {"final_answer", "final_result"}

\* C18: for a text that is one solution block either classifier returns one
\* final-answer event and nothing else, and classifying the text again gives
\* the same.
C18_OnlyFinalAnswer ==
    /\ (ClassifiedByA1 /\ OnlySolution(current_chunk.text)) =>
           /\ Len(a1_events) = 1 /\ a1_events[1].type \in FinalTypes
           /\ classify_message_multi(current_chunk.text) = a1_events
    /\ (ClassifiedByOrchestrator /\ OnlySolution(current_chunk.text)) =>
           /\ Len(orch_events) = 1 /\ orch_events[1].type \in FinalTypes
           /\ parse_chunk_with_llm(current_chunk.text, 0) = orch_events

\* C19: the observation message an execute step appends is classified as a
\* tool_output event that carries the observation text, not as reasoning.
C19_ObservationIsToolOutput ==
    AfterExecute =>
        /\ current_chunk = Classified("a1", LastMessage.content)
        /\ \E i \in 1..Len(a1_events) :
               /\ a1_events[i].type = "tool_output"
               /\ a1_events[i].content = ObservationBody
        /\ \A i \in 1..Len(a1_events) : a1_events[i].type # "reasoning"

SentToolCalls == {i \in 1..Len(sent) : sent[i].type = "tool_call"}

\* C20: the tool_call events of a stream have pairwise different ids, and
\* each has a pending record of its own with its dispatch time: as long as
\* no record was cleared there are as many records as tool_call events.
C20_OnePendingPerToolCall ==
    /\ \A i, j \in SentToolCalls : i # j => sent[i].tool_id # sent[j].tool_id
    /\ Len(pending_tool_calls) = Cardinality(SentToolCalls)
    /\ \A i \in SentToolCalls :
           \E k \in 1..Len(pending_tool_calls) :
               /\ pending_tool_calls[k].tool_id = sent[i].tool_id
               /\ pending_tool_calls[k].sent_time >= sent[i].tool_id

IsTimeout(e) == e.type = "observation" /\ "timeout" \in DOMAIN e
IsPlaceholder(e) == e.type = "tool_output" /\ "placeholder" \in DOMAIN e
IsOutput(e) == e.type \in {"tool_output", "observation"}

Range(s) == {s[i] : i \in 1..Len(s)}
PendingIds == {pending_tool_calls[i].tool_id : i \in 1..Len(pending_tool_calls)}

\* the ids of the tool calls of es that no later output event of es answers:
\* an output event answers the call whose id it carries, and the most recent
\* unanswered call when it carries none
RECURSIVE Unmatched(_, _)
Unmatched(es, open) ==
    IF es = <<>> THEN open
    ELSE LET e == Head(es)
         IN  Unmatched(Tail(es),
                 IF e.type = "tool_call" THEN Append(open, e.tool_id)
                 ELSE IF IsOutput(e) /\ HasToolId(e)
                 THEN Keep(open, {i \in 1..Len(open) : open[i] # e.tool_id})
                 ELSE IF IsOutput(e) /\ open # <<>>
                 THEN SubSeq(open, 1, Len(open) - 1)
                 ELSE open)

\* C21: an emitted tool_output/observation event removes the pending record
\* of the tool call it answers (the most recent unanswered one when it has
\* no id): every pending record belongs to an unanswered tool call, and a
\* timeout event is only synthesized for a call unanswered until then.
C21_OutputClearsPending ==
    /\ PendingIds \subseteq Range(Unmatched(sent, <<>>))
    /\ \A k \in 1..Len(sent) :
           IsTimeout(sent[k]) =>
               sent[k].tool_id \in Range(Unmatched(SubSeq(sent, 1, k - 1), <<>>))

TimeoutsFor(es, id) == {k \in 1..Len(es) : IsTimeout(es[k]) /\ es[k].tool_id = id}

\* C22: a call of check_pending_events synthesizes one timeout event for
\* every pending tool call that is older than the 600 s timeout, and removes
\* its record; a record that is not older stays and gets no timeout event.
\* No tool call ever has two timeout events: it is either pending or has
\* exactly one.
C22_OneTimeoutPerExpiredCall ==
    [][polls' = polls + 1 =>
         /\ \A i \in 1..Len(pending_tool_calls) :
              LET r == pending_tool_calls[i]
              IN  IF clock' - r.sent_time > TOOL_TIMEOUT_MS
                  THEN /\ TimeoutsFor(sent, r.tool_id) = {}
                       /\ Cardinality(TimeoutsFor(sent', r.tool_id)) = 1
                       /\ \A k \in 1..Len(pending_tool_calls') :
                              pending_tool_calls'[k].tool_id # r.tool_id
                  ELSE /\ r \in Range(pending_tool_calls')
                       /\ TimeoutsFor(sent', r.tool_id) = {}
         /\ \A i \in 1..Len(sent') :
              sent'[i].type = "tool_call" =>
                  IF \E k \in 1..Len(pending_tool_calls') :
                         pending_tool_calls'[k].tool_id = sent'[i].tool_id
                  THEN TimeoutsFor(sent', sent'[i].tool_id) = {}
                  ELSE Cardinality(TimeoutsFor(sent', sent'[i].tool_id)) = 1
    ]_vars

\* C22 witness: a tool call of the first second has its timeout event, and
\* a second check ran more than 600 s after the one that emitted it
C22_TimedOutAndCheckedAgain ==
    /\ \E i \in 1..Len(sent) :
           /\ sent[i].type = "tool_call" /\ sent[i].tool_id < 1000
           /\ TimeoutsFor(sent, sent[i].tool_id) # {}
    /\ clock > 2 * TOOL_TIMEOUT_MS
    /\ pending_tool_calls = <<>>

DoneEmitted == \E i \in 1..Len(events) : events[i].type = "done"

\* C23: when the done event is emitted no tool call is pending any more:
\* every record that was left when the chunk source finished has been
\* resolved by a synthesized output event emitted before done.
C23_DrainedAtDone ==
    DoneEmitted =>
        /\ pending_tool_calls = <<>>
        /\ orchestrator_pending = {}

Closed == consumer = "closed"
DoneEvents == {i \in 1..Len(events) : events[i].type = "done"}

\* C24: once the agent thread has finished or failed the stream closes; the
\* closed stream ends with a done or an error event; at most one done event
\* is ever emitted and it is the last event.
C24_TerminalEvent ==
    /\ (thread = "exited") ~> Closed
    /\ [](Closed => /\ events # <<>>
                    /\ events[Len(events)].type \in {"done", "error"})
    /\ [](/\ Cardinality(DoneEvents) <= 1
          /\ DoneEvents \subseteq {Len(events)})

\* C24 witness: a stream closed by done after the agent thread failed, and
\* the error event came before done
C24_ClosedAfterFailure ==
    /\ Closed /\ node = "raised"
    /\ Len(events) >= 2
    /\ events[Len(events)].type = "done"
    /\ events[Len(events) - 1].type = "error"

ContentItems(q) == {i \in 1..Len(q) : q[i].kind = "content"}

\* the states go_stream has yielded: the input state and one for every
\* super-step that did not raise
Yielded ==
    IF node = "idle" THEN 0
    ELSE 1 + steps - (IF node = "raised" THEN 1 ELSE 0)

\* C25: the queue is only ever extended at its tail by the agent thread and
\* shortened at its head by the consumer, whatever the other side is doing;
\* the content item the consumer takes is the chunk it passes to the
\* orchestrator; every chunk go_stream yielded is either in the queue or has
\* been passed on, and when done is emitted all have been passed on.
C25_NoChunkLost ==
    /\ [][/\ output_queue' # output_queue =>
               \/ /\ Len(output_queue') = Len(output_queue) + 1
                  /\ SubSeq(output_queue', 1, Len(output_queue)) = output_queue
                  /\ UNCHANGED <<consumer, chunks, events>>
               \/ /\ output_queue # <<>> /\ output_queue' = Tail(output_queue)
                  /\ UNCHANGED thread
                  /\ Head(output_queue).kind = "content" =>
                         /\ chunks' = chunks + 1
                         /\ current_chunk' =
                                Classified("orchestrator", Head(output_queue).text)
          /\ chunks' # chunks => output_queue' = Tail(output_queue)
       ]_vars
    /\ [](thread # "none" =>
              chunks + Cardinality(ContentItems(output_queue)) = Yielded)
    /\ [](DoneEmitted => output_queue = <<>> /\ chunks = Yielded)

\* C25 witness: the agent thread got two chunks ahead of the consumer, which
\* had already passed one on
C25_ProducerAhead ==
    /\ chunks >= 1
    /\ Cardinality(ContentItems(output_queue)) >= 2
    /\ thread = "running"

\* C26: the fields of the agent a session works with are its own: the
\* stored user task is its prompt, the round counter counts its critiques,
\* and the log holds the states of its run, the first being its prompt.
C26_SessionsIndependent ==
    node # "idle" =>
        /\ user_task = messages[1].content
        /\ critic_count = Cardinality(Critiques(messages))
        /\ Len(log) = Yielded
        /\ log[1] = pretty_print(messages[1])

EventsOfType(types) == {i \in 1..Len(events) : events[i].type \in types}

\* the outputs of executions among the events: not the synthesized ones
ExecutionOutputs ==
    {i \in EventsOfType({"tool_output", "observation"}) :
        ~IsTimeout(events[i]) /\ ~IsPlaceholder(events[i])}

\* the session has stored a reply with a solution block
SolutionGiven ==
    \E i \in 1..Len(messages) :
        /\ messages[i].role = "ai"
        /\ Block(messages[i].content, "<solution>", "</solution>")

\* C27: in the events of a session the n-th output of an execution comes
\* after the n-th tool_call; a session that ended with a solution has
\* emitted a final_answer event, after every tool_call and output event, and
\* only done follows it.
C27_CallOutputAnswer ==
    /\ \A j \in ExecutionOutputs :
           Cardinality({i \in ExecutionOutputs : i <= j})
               <= Cardinality({i \in EventsOfType({"tool_call"}) : i < j})
    /\ (Closed /\ node = "END" /\ SolutionGiven) =>
           \E k \in EventsOfType({"final_answer"}) :
               /\ \A i \in EventsOfType({"tool_call", "tool_output", "observation"}) :
                      i < k
               /\ \A i \in (k + 1)..Len(events) : events[i].type = "done"

HighIn(es) == {i \in 1..Len(es) : es[i].priority = "HIGH"}

\* C28: of the events classified from one chunk process_chunk_stream emits
\* every high-priority one, and emits none of them after a normal-priority
\* event of the same chunk.
C28_HighPriorityFirst ==
    ClassifiedByOrchestrator =>
        /\ Keep(sent, HighIn(sent)) = Keep(orch_events, HighIn(orch_events))
        /\ \A i, j \in 1..Len(sent) :
               (i < j /\ sent[j].priority = "HIGH") => sent[i].priority = "HIGH"

\* C28 as the code has it: the events emitted for one chunk are events the
\* classifier returned, in the classifier's order, and all the high-priority
\* ones are among them.
C28_HighPriorityKept ==
    ClassifiedByOrchestrator =>
        \E K \in SUBSET (1..Len(orch_events)) :
            /\ HighIn(orch_events) \subseteq K
            /\ sent = Keep(orch_events, K)

\* C28 witness: a high-priority event was emitted after a normal-priority
\* event of its chunk, and a normal-priority event of the chunk was dropped
C28_HighAfterNormal ==
    /\ ClassifiedByOrchestrator
    /\ \E i, j \in 1..Len(sent) :
           i < j /\ sent[i].priority # "HIGH" /\ sent[j].priority = "HIGH"
    /\ Len(sent) < Len(orch_events)

\* the blocks of a text that open with the tag k
BlocksOf(s, k) == {i \in 1..Len(s) : s[i][1] = k}

ClassifiedAs(types) == {i \in 1..Len(orch_events) : orch_events[i].type \in types}

HeaderWithBlock ==
    /\ ClassifiedByOrchestrator
    /\ Head(Strip(current_chunk.text)) = Tok(AI_HEADER)
    /\ \/ Contains(current_chunk.text, "<execute>")
       \/ Contains(current_chunk.text, "<observation>")

\* C29: a chunk that starts with the "Ai Message" header and embeds execute or
\* observation blocks is classified into one tool_call per execute block and
\* one observation per observation block, and no message event carries the
\* text of a block again.
C29_OneEventPerBlock ==
    HeaderWithBlock =>
        /\ Cardinality(ClassifiedAs({"tool_call"}))
               = Cardinality(BlocksOf(current_chunk.text, "<execute>"))
        /\ Cardinality(ClassifiedAs({"observation"}))
               = Cardinality(BlocksOf(current_chunk.text, "<observation>"))
        /\ \A i \in ClassifiedAs({"message", "ai_message"}) :
               /\ ~Contains(orch_events[i].content, "<execute>")
               /\ ~Contains(orch_events[i].content, "<observation>")

\* the counts alone
C29_BlockCounts ==
    HeaderWithBlock =>
        /\ Cardinality(ClassifiedAs({"tool_call"}))
               = Cardinality(BlocksOf(current_chunk.text, "<execute>"))
        /\ Cardinality(ClassifiedAs({"observation"}))
               = Cardinality(BlocksOf(current_chunk.text, "<observation>"))

\* the type of the last normal-priority event of seq
LastNormalType(seq) ==
    LET N == {i \in 1..Len(seq) : seq[i].priority # "HIGH"}
    IN  IF N = {} THEN "None"
        ELSE seq[CHOOSE i \in N : \A j \in N : j <= i].type

\* e is a normal-priority event of the type emitted last, and the type is
\* not one that is always emitted
Repeats(e, emitted) ==
    /\ e.priority # "HIGH"
    /\ e.type = LastNormalType(emitted)
    /\ e.type \notin {"tool_call", "tool_output", "planning"}

\* C30: process_chunk_stream drops an event of a chunk exactly when the event
\* has normal priority, its type is the type of the last normal-priority event
\* emitted so far and the type is not tool_call, tool_output or planning;
\* last_event_type is the type of the last normal-priority event emitted, so
\* high-priority events leave it alone.
C30_SuppressedWhenRepeated ==
    [][chunks' = chunks + 1 =>
         \E K \in SUBSET (1..Len(orch_events')) :
            /\ sent' = sent \o Keep(orch_events', K)
            /\ \A i \in 1..Len(orch_events') :
                   i \notin K <=>
                       Repeats(orch_events'[i],
                               sent \o Keep(orch_events', {k \in K : k < i}))
            /\ last_event_type' = LastNormalType(sent')]_vars

\* C30 witness: reasoning, tool_call, reasoning arrived as three chunks and
\* the second reasoning event was not emitted
C30_SecondReasoningDropped ==
    /\ chunks = 3
    /\ Len(sent) = 2
    /\ sent[1].type = "reasoning" /\ sent[2].type = "tool_call"
    /\ Len(orch_events) = 1 /\ orch_events[1].type = "reasoning"
    /\ last_event_type = "reasoning"

\* C31: when stream_a1_events_v4_old ends, no content chunk of the agent
\* thread is left in the queue, and the last event is done or error.
C31_OldStreamComplete ==
    Closed =>
        /\ ContentItems(output_queue) = {}
        /\ events # <<>>
        /\ events[Len(events)].type \in {"done", "error"}

\* the first half of C31 alone
C31_NoChunkLeft == Closed => ContentItems(output_queue) = {}

\* the second half of C31 alone
C31_NotSilent ==
    Closed => events # <<>> /\ events[Len(events)].type \in {"done", "error"}

\* the only recognized tag of the reply is <think>
ThinkOnly(r) ==
    /\ Matches(FixTags(r), "<think>", "</think>")
    /\ ~Matches(FixTags(r), "<execute>", "</execute>")
    /\ ~Matches(FixTags(r), "<solution>", "</solution>")

ThinkOnlyModel == llm = FixedModel({Ok(ThinkReply)})

\* C32: a reply whose only recognized tag is <think> sends the run back to
\* generate, appends the reply alone (no corrective message) and leaves the
\* count of parse errors as it was; against a model that only thinks the run
\* never ends by itself and is stopped by nothing but the limit of 500 steps.
C32_ThinkOnlyLoops ==
    /\ [][(steps' = steps + 1 /\ last'.node = "generate" /\ ~last'.raised
             /\ ThinkOnly(last'.reply)) =>
            /\ next_step' = "generate" /\ node' = "generate"
            /\ last'.appended = 1
            /\ messages'[Len(messages')] = AIMessage(Strip(FixTags(last'.reply)))
            /\ error_count(messages') = error_count(messages)
            /\ tagless_run' = 0]_vars
    /\ [](ThinkOnlyModel =>
            /\ node \notin {"END", "execute", "self_critic"}
            /\ node = "raised" =>
                  steps = recursion_limit /\ last.node = "recursion_limit")

\* C32 witness: a run of think-only replies was stopped by the limit, every
\* message after the prompt being a reply
C32_ThinkingUntilLimit ==
    /\ ThinkOnlyModel
    /\ node = "raised" /\ last.node = "recursion_limit"
    /\ Len(messages) = recursion_limit + 1
    /\ \A i \in 2..Len(messages) : messages[i] = AIMessage(ThinkReply)

NullFirst == <<"Received null response from LLM">>
NullRetry == <<"Still received null response after truncation">>

\* C33: a null reply to the first model call of a generate step is raised out
\* of generate after that one call, with nothing truncated and nothing
\* appended; a null reply to the retry is replaced by the synthesized
\* <solution> error message, which ends the run of generate steps.
C33_NullReply ==
    last.node = "generate" =>
        /\ last.error = NullFirst =>
               /\ last.raised /\ node = "raised"
               /\ last.calls = 1 /\ last.truncated = 0 /\ last.appended = 0
        /\ last.retry_error = NullRetry =>
               /\ ~last.raised /\ last.calls = 2
               /\ last.reply = ContextErrorReply
               /\ LastMessage = AIMessage(Strip(ContextErrorReply))
               /\ next_step = "end"

\* C33 witness: the retry of a generate step, made with a truncated
\* observation, got a null reply
C33_NullOnRetry ==
    /\ last.node = "generate" /\ last.retry_error = NullRetry
    /\ last.truncated > 0

\* a generate step was raised by a null reply to its first call
C33_NullOnFirstCall ==
    last.node = "generate" /\ last.error = NullFirst /\ Len(messages) > 1

\* C34: the subtype of the tool_call event classified from a reply is the
\* lane the execute step then runs the code of that reply in.
C34_LanguageIsLane ==
    [][(steps' = steps + 1 /\ last'.node = "execute" /\ last'.appended = 1) =>
          \A i \in 1..Len(a1_events) :
              a1_events[i].type = "tool_call" =>
                  a1_events[i].subtype = last'.lane]_vars

Placeholders == {k \in 1..Len(sent) : IsPlaceholder(sent[k])}

\* C35: a tool call gets at most one placeholder output, only while no output
\* of the call has been emitted, and the orchestrator no longer holds the call
\* afterwards.
C35_PlaceholderOnlyWhenUnanswered ==
    \A k \in Placeholders :
        /\ \A j \in Placeholders : sent[j].tool_id = sent[k].tool_id => j = k
        /\ sent[k].tool_id \in Range(Unmatched(SubSeq(sent, 1, k - 1), <<>>))
        /\ sent[k].tool_id \notin orchestrator_pending

\* the first and the last part of C35 alone
C35_OncePerCall ==
    \A k \in Placeholders :
        /\ \A j \in Placeholders : sent[j].tool_id = sent[k].tool_id => j = k
        /\ sent[k].tool_id \notin orchestrator_pending

\* the resident session whose last use is the oldest
LeastRecentlyUsed ==
    LET r == Keep(served.recency,
                  {i \in 1..Len(served.recency) :
                       served.recency[i] \in Resident(session_agents)})
    IN  IF r = <<>> THEN 0 ELSE Head(r)

Requested == served'.session

\* C36: the pool never holds more than max_sessions agents; a request of a
\* resident session gets the agent of that session and changes no table; a
\* request of another session when the pool is full removes the agent and the
\* memory of the least recently used session.
C36_PoolEvictsLeastRecentlyUsed ==
    /\ [](Len(session_agents) <= max_sessions)
    /\ [][/\ Requested \in Resident(session_agents) =>
                /\ served'.agent = AgentOf(session_agents, Requested)
                /\ session_agents' = session_agents
                /\ session_memories' = session_memories
          /\ (Requested \notin Resident(session_agents)
                  /\ Len(session_agents) >= max_sessions) =>
                /\ served'.evicted = LeastRecentlyUsed
                /\ served'.evicted \notin Resident(session_agents')
                /\ served'.evicted \notin session_memories']_vars

\* C36 without the order of use: the session removed is the one whose entry
\* is the oldest
C36_PoolEvictsOldestEntry ==
    /\ [](Len(session_agents) <= max_sessions)
    /\ [][/\ Requested \in Resident(session_agents) =>
                /\ served'.agent = AgentOf(session_agents, Requested)
                /\ session_agents' = session_agents
                /\ session_memories' = session_memories
          /\ (Requested \notin Resident(session_agents)
                  /\ Len(session_agents) >= max_sessions) =>
                /\ served'.evicted = Head(session_agents).session
                /\ served'.evicted \notin Resident(session_agents')
                /\ served'.evicted \notin session_memories']_vars

\* C37: no user ever has more than max_sessions_per_user active sessions;
\* check_session_limit returns True on every call, so the request is never
\* refused; a call changes the set of one user only by adding the requested
\* session, after removing one session when the set was full.
C37_SessionLimitNeverRefuses ==
    /\ [](/\ \A u \in Users :
               Cardinality(user_sessions[u]) <= max_sessions_per_user
          /\ served.allowed)
    /\ [][\A u \in Users :
             user_sessions'[u] # user_sessions[u] =>
                \E sid \in user_sessions'[u] \ user_sessions[u] :
                    IF Cardinality(user_sessions[u]) < max_sessions_per_user
                    THEN user_sessions'[u] = user_sessions[u] \cup {sid}
                    ELSE \E old \in user_sessions[u] :
                            /\ served'.evicted = old
                            /\ user_sessions'[u] =
                                   (user_sessions[u] \ {old}) \cup {sid}]_vars

\* C37 witness: the set of a user was full and a new session was admitted in
\* place of another
C37_AdmittedWhenFull ==
    /\ served.allowed /\ served.evicted # 0
    /\ \E u \in Users :
          /\ Cardinality(user_sessions[u]) = max_sessions_per_user
          /\ served.issued \in user_sessions[u]
          /\ served.evicted \notin user_sessions[u]

====
